---- MODULE Spec2Model ----
(***************************************************************************)
(* A model of the in-memory data engine: the progressive-rehashing hash    *)
(* map (src/src/hashtable.cpp) and the AVL order-statistics tree           *)
(* (avl.cpp), with the operations translated from the source.              *)
(***************************************************************************)
EXTENDS Integers, Sequences, FiniteSets, TLC

VARIABLES
    hmap,      \* the HMap: [newer, older, migrate_pos]
    loaded,    \* ghost: ids of the bulk-loaded entries not yet deleted
    live,      \* ghost: entries the calls inserted and have not yet deleted
    last,      \* ghost: what the last public hash-map call was and returned
    rh,        \* ghost: the last rehash, [n: older.size at its trigger, calls]
    nextId,    \* identity of the next entry to be allocated by the caller
    ops,       \* number of public calls made so far (bounds the run)
    aborted,   \* an assertion of the hash map failed (the process is gone)
    tree,      \* AVL heap: node id -> [parent, left, right, height, cnt]
    val,       \* Data.val of each tree node (0 for a free slot)
    root,      \* Container.root
    tlast,     \* ghost: the last tree operation
    tref,      \* ghost: the nodes added to the tree and not yet deleted
    tfuel,     \* tree operations the run may still make (bounds the run)
    harr,      \* Container.heap of test_heap.cpp: the array of HeapItem
    hidx,      \* Data.heap_idx of each record (-1 before it is set)
    hrec,      \* Container.map: the records [d, val] added and not deleted
    hlast,     \* ghost: the last heap operation
    hbad,      \* ghost: an access outside the heap array has happened
    hfuel,     \* heap operations the run may still make (bounds the run)
    mu,        \* TheadPool.mu: the thread that holds the mutex, 0 for none
    queue,     \* TheadPool.queue: the deque of Work
    waiting,   \* the workers blocked in pthread_cond_wait on not_empty
    wpc,       \* where each worker thread is in worker()
    wtask,     \* Work w of each worker (NoWork before the first)
    ppc,       \* where each producer thread is in thread_pool_queue()
    ptask,     \* Work {f, arg} each producer is queuing
    tnext,     \* the next task to be created (bounds the run)
    appended,  \* ghost: the tasks in the order of their push_back
    removed,   \* ghost: the tasks in the order of their pop_front
    ran,       \* ghost: the calls w.f(w.arg) made, [task, worker]
    busyq,     \* ghost: a push_back was made while every worker ran a task
    idleq,     \* ghost: a push_back was made while a worker was blocked
    dlist,     \* list.h: the DList nodes, [prev, next]; the head is the last
    dlinked,   \* ghost: the nodes inserted and not detached, oldest first
    dfuel      \* the operations on the list left in the run

hvars == <<hmap, loaded, live, last, rh, nextId, ops, aborted>>
tvars == <<tree, val, root, tlast, tref, tfuel>>
pvars == <<harr, hidx, hrec, hlast, hbad, hfuel>>
qvars ==
    <<mu, queue, waiting, wpc, wtask, ppc, ptask, tnext, appended, removed,
      ran, busyq, idleq>>
lvars == <<dlist, dlinked, dfuel>>
vars ==
    <<hmap, loaded, live, last, rh, nextId, ops, aborted,
      tree, val, root, tlast, tref, tfuel,
      harr, hidx, hrec, hlast, hbad, hfuel,
      mu, queue, waiting, wpc, wtask, ppc, ptask, tnext, appended, removed,
      ran, busyq, idleq,
      dlist, dlinked, dfuel>>

(***************************************************************************)
(* Bounds of the model.                                                    *)
(***************************************************************************)
MaxOps == 4

(***************************************************************************)
(* Program constants.                                                      *)
(***************************************************************************)
k_rehashing_work == 128
k_max_load_factor == 8
k_initial_capacity == 4

\* A null pointer to an HNode (the "no entry" result of lookup and delete).
NullNode == [id |-> 0, hcode |-> 0, key |-> 0]

\* A null bucket array: HTab.tab == nullptr.  An allocated bucket array is a
\* non-empty sequence of chains, bucket i being element i + 1; a chain lists
\* its entries from the head, following the next pointers.
NullTab == <<>>

\* HTab{}: tab = nullptr, mask = 0, size = 0.
EmptyHTab == [tab |-> NullTab, mask |-> 0, size |-> 0]

\* HMap{}: both tables empty, migrate_pos = 0.
EmptyHMap == [newer |-> EmptyHTab, older |-> EmptyHTab, migrate_pos |-> 0]

\* Bitwise AND of two non-negative integers.
RECURSIVE BitAnd(_, _)
BitAnd(a, b) ==
    IF a = 0 \/ b = 0 THEN 0
    ELSE (a % 2) * (b % 2) + 2 * BitAnd(a \div 2, b \div 2)

\* assert(n > 0 && ((n - 1) & n) == 0) of h_init.
h_init_assert(n) == n > 0 /\ BitAnd(n - 1, n) = 0

\* h_init: n empty buckets, mask = n - 1, size = 0.
h_init(n) == [tab |-> [i \in 1..n |-> <<>>], mask |-> n - 1, size |-> 0]

\* h_insert: link the node at the head of its bucket's chain; size++.
h_insert(htab, node) ==
    LET pos == BitAnd(node.hcode, htab.mask)
    IN  [htab EXCEPT !.tab[pos + 1] = <<node>> \o @, !.size = @ + 1]

\* The caller-supplied equality predicate: entries compare by their key.
KeyEq(cur, key) == cur.key = key.key

\* A caller-supplied predicate that accepts one entry only: the key carries
\* the identity of the entry it is looking for.
IdEq(cur, key) == cur.id = key.id

\* eq(cur, key): the call through the function pointer eq, which is one of
\* the callers' predicates.
CallEq(eq, cur, key) ==
    IF eq = "IdEq" THEN IdEq(cur, key) ELSE KeyEq(cur, key)

\* The null result of h_lookup (no incoming pointer).
NullFrom == [pos |-> 0, idx |-> 0]

\* A faulty test that returns any entry of the same hash code.
h_lookup_hit_any(cur, key, accepted) == cur.hcode = key.hcode

\* The test of h_lookup's loop: cur->hcode == key->hcode && eq(cur, key),
\* accepted being what eq(cur, key) returns.
h_lookup_hit(cur, key, accepted) == cur.hcode = key.hcode /\ accepted

\* h_lookup: the incoming pointer of the first entry of the key's bucket
\* whose hcode equals the key's and which eq accepts: its bucket and its
\* place in the chain (1 = the bucket slot itself).
h_lookup(htab, key, eq) ==
    IF htab.tab = NullTab THEN NullFrom
    ELSE LET pos == BitAnd(key.hcode, htab.mask)
             chain == htab.tab[pos + 1]
             hits == {i \in 1..Len(chain) :
                         h_lookup_hit(chain[i], key, CallEq(eq, chain[i], key))}
         IN  IF hits = {} THEN NullFrom
             ELSE [pos |-> pos,
                   idx |-> CHOOSE i \in hits : \A j \in hits : i <= j]

\* *from of a non-null incoming pointer.
Deref(htab, from) == htab.tab[from.pos + 1][from.idx]

\* A faulty h_detach that unlinks the head of the chain whatever *from is.
h_detach_head(htab, from) ==
    LET chain == htab.tab[from.pos + 1]
    IN  [htab EXCEPT !.tab[from.pos + 1] = SubSeq(chain, 2, Len(chain)),
                     !.size = @ - 1]

\* A faulty h_detach that counts the node out and leaves it linked.
h_detach_linked(htab, from) == [htab EXCEPT !.size = @ - 1]

\* h_detach: unlink the node *from points at; size--.
h_detach(htab, from) ==
    LET chain == htab.tab[from.pos + 1]
    IN  [htab EXCEPT !.tab[from.pos + 1] =
                         SubSeq(chain, 1, from.idx - 1)
                         \o SubSeq(chain, from.idx + 1, Len(chain)),
                     !.size = @ - 1]

\* A faulty loop condition that stops one node short of the quota.
hm_migrate_cond_short(st) ==
    st.nwork + 1 < k_rehashing_work /\ st.h.older.size > 0

\* A faulty loop condition without the quota: it drains the older table.
hm_migrate_cond_all(st) == st.h.older.size > 0

\* The loop condition of hm_help_rehashing, on the loop state [h, nwork].
hm_migrate_cond(st) == st.nwork < k_rehashing_work /\ st.h.older.size > 0

\* A faulty iteration that detaches the node from the older table and never
\* links it into the newer one.
hm_migrate_iter_drop(st) ==
    LET h == st.h
    IN  IF ~(st.nwork < k_rehashing_work /\ h.older.size > 0) THEN st
        ELSE IF h.older.tab[h.migrate_pos + 1] = <<>>
        THEN [st EXCEPT !.h.migrate_pos = @ + 1]
        ELSE [h |-> [h EXCEPT !.older =
                                  h_detach(h.older,
                                           [pos |-> h.migrate_pos, idx |-> 1])],
              nwork |-> st.nwork + 1]

\* One iteration of the migration loop: skip an empty bucket (migrate_pos++,
\* no work counted) or move the head of the bucket at migrate_pos from the
\* older to the newer table (nwork++).  With migrate_pos past the last
\* bucket the code reads outside the bucket array, which is undefined: the
\* model keeps the state, with entries in the older table and the cursor
\* out of range.
hm_migrate_iter(st) ==
    LET h == st.h
    IN  IF ~hm_migrate_cond(st) THEN st
        ELSE IF h.migrate_pos > h.older.mask THEN st
        ELSE IF h.older.tab[h.migrate_pos + 1] = <<>>
        THEN [st EXCEPT !.h.migrate_pos = @ + 1]
        ELSE LET from == [pos |-> h.migrate_pos, idx |-> 1]
                 node == Deref(h.older, from)
             IN  [h |-> [h EXCEPT !.older = h_detach(h.older, from),
                                  !.newer = h_insert(h.newer, node)],
                  nwork |-> st.nwork + 1]

\* Up to n iterations of the migration loop, stopping when its condition
\* fails (the iterations are split in halves to keep the evaluation shallow).
RECURSIVE hm_migrate_run(_, _)
hm_migrate_run(st, n) ==
    IF n <= 1 THEN hm_migrate_iter(st)
    ELSE LET a == hm_migrate_run(st, n \div 2)
         IN  IF hm_migrate_cond(a) THEN hm_migrate_run(a, n - n \div 2) ELSE a

\* The while loop of hm_help_rehashing.  Every iteration increments nwork or
\* migrate_pos, so k_rehashing_work + capacity iterations always suffice.
hm_migrate(hm) ==
    hm_migrate_run([h |-> hm, nwork |-> 0],
                   k_rehashing_work + hm.older.mask + 1).h

\* hm_help_rehashing: the migration loop, then the release of an older table
\* that is empty and still allocated.
hm_help_rehashing(hm) ==
    LET h == hm_migrate(hm)
    IN  IF h.older.size = 0 /\ h.older.tab # NullTab
        THEN [h EXCEPT !.older = EmptyHTab]
        ELSE h

\* assert(hmap->older.tab == NULL) of hm_trigger_rehashing.
hm_trigger_assert(h) == h.older.tab = NullTab

\* A faulty trigger that doubles the mask instead of the capacity.
hm_trigger_rehashing_mask(h) ==
    [newer |-> h_init(h.newer.mask * 2),
     older |-> h.newer,
     migrate_pos |-> 0]

\* A faulty trigger that leaves the cursor where the last rehash ended.
hm_trigger_rehashing_pos(h) ==
    [newer |-> h_init((h.newer.mask + 1) * 2),
     older |-> h.newer,
     migrate_pos |-> h.migrate_pos]

\* hm_trigger_rehashing: older = newer, newer = a table of twice the
\* capacity, migrate_pos = 0.
hm_trigger_rehashing(h) ==
    [newer |-> h_init((h.newer.mask + 1) * 2),
     older |-> h.newer,
     migrate_pos |-> 0]

\* hm_insert, lines 121-125: the lazy h_init(4) and the h_insert into newer.
hm_insert_add(h, node) ==
    LET h1 == IF h.newer.tab = NullTab
              THEN [h EXCEPT !.newer = h_init(k_initial_capacity)]
              ELSE h
    IN  [h1 EXCEPT !.newer = h_insert(h1.newer, node)]

\* A faulty check that waits for the load factor to exceed the threshold.
hm_insert_triggers_strict(h) ==
    /\ h.older.tab = NullTab
    /\ h.newer.size > (h.newer.mask + 1) * k_max_load_factor

\* hm_insert, lines 127-133: whether the load-factor check triggers.
hm_insert_triggers(h) ==
    /\ h.older.tab = NullTab
    /\ h.newer.size >= (h.newer.mask + 1) * k_max_load_factor

\* A faulty hm_insert without the load-factor check.
hm_insert_check_none(h) == h

\* hm_insert, lines 127-133: the load-factor check.
hm_insert_check(h) ==
    IF hm_insert_triggers(h) THEN hm_trigger_rehashing(h) ELSE h

\* hm_insert: add, check the load factor, one migration step.
hm_insert(h, node) ==
    hm_help_rehashing(hm_insert_check(hm_insert_add(h, node)))

\* hm_lookup after its migration step: newer first, then older.
hm_lookup_search(h, key, eq) ==
    LET f1 == h_lookup(h.newer, key, eq)
        f2 == h_lookup(h.older, key, eq)
    IN  IF f1 # NullFrom THEN Deref(h.newer, f1)
        ELSE IF f2 # NullFrom THEN Deref(h.older, f2)
        ELSE NullNode

\* hm_lookup: [hmap after the call, ret the entry returned or NullNode].
hm_lookup(hm, key, eq) ==
    LET h == hm_help_rehashing(hm)
    IN  [hmap |-> h, ret |-> hm_lookup_search(h, key, eq)]

\* A faulty hm_delete that returns the entry and leaves it linked.
hm_delete_keep(hm, key, eq) ==
    [hmap |-> hm_help_rehashing(hm),
     ret |-> hm_lookup_search(hm_help_rehashing(hm), key, eq)]

\* hm_delete: migration step, then detach from newer, else from older.
hm_delete(hm, key, eq) ==
    LET h == hm_help_rehashing(hm)
        f1 == h_lookup(h.newer, key, eq)
        f2 == h_lookup(h.older, key, eq)
    IN  IF f1 # NullFrom
        THEN [hmap |-> [h EXCEPT !.newer = h_detach(h.newer, f1)],
              ret |-> Deref(h.newer, f1)]
        ELSE IF f2 # NullFrom
        THEN [hmap |-> [h EXCEPT !.older = h_detach(h.older, f2)],
              ret |-> Deref(h.older, f2)]
        ELSE [hmap |-> h, ret |-> NullNode]

\* A faulty hm_size that leaves the older table out.
hm_size_newer_only(h) == h.newer.size

\* hm_size: newer.size + older.size.
hm_size(h) == h.newer.size + h.older.size

\* The assertions on the path of hm_insert: h_init's power-of-two check at
\* the lazy initialisation and at the trigger, and the trigger's own.
hm_insert_asserts(h, node) ==
    LET a == hm_insert_add(h, node)
    IN  /\ h.newer.tab = NullTab => h_init_assert(k_initial_capacity)
        /\ hm_insert_triggers(a) =>
               /\ hm_trigger_assert(a)
               /\ h_init_assert((a.newer.mask + 1) * 2)

(***************************************************************************)
(* The hash map's callers: what they insert and ask for.                   *)
(***************************************************************************)

\* The entry the i-th insert of a bulk load allocates: hcode i, key i.
Entry(i) == [id |-> i, hcode |-> i, key |-> i]

\* One scripted call on behalf of entry i: hm_insert of Entry(i), or
\* hm_delete or hm_lookup with Entry(i)'s hash code and key.
Step(h, op, i) ==
    IF op = "insert" THEN hm_insert(h, Entry(i))
    ELSE IF op = "delete" THEN hm_delete(h, Entry(i), "KeyEq").hmap
    ELSE hm_lookup(h, Entry(i), "KeyEq").hmap

\* The map after the calls Step(op, lo), ..., Step(op, hi) in this order
\* (split in halves to keep the evaluation shallow).
RECURSIVE Replay(_, _, _, _)
Replay(h, op, lo, hi) ==
    IF lo > hi THEN h
    ELSE IF lo = hi THEN Step(h, op, lo)
    ELSE LET mid == (lo + hi) \div 2
             a == Replay(h, op, lo, mid)
         IN  IF a.migrate_pos >= 0 THEN Replay(a, op, mid + 1, hi) ELSE a

\* The map after hm_insert of Entry(1), ..., Entry(n) into an empty map.
Loaded(n) == Replay(EmptyHMap, "insert", 1, n)

\* Bulk loads the runs start from: one insert short of the rehash trigger of
\* a 4-bucket and of a 64-bucket table.
LoadSmall == k_max_load_factor * k_initial_capacity - 1
LoadLarge == k_max_load_factor * 64 - 1
Loads == {0, LoadSmall, LoadLarge}

\* The keys the callers insert, look up and delete: the key of a bulk-loaded
\* entry of the last bucket to migrate, and a key of the same hash code that
\* no bulk-loaded entry has.
Keys == {[hcode |-> LoadLarge, key |-> LoadLarge],
         [hcode |-> LoadLarge, key |-> 2 * LoadLarge]}

\* The entries inserted and not yet returned by hm_delete.
Live == {Entry(i) : i \in loaded} \cup live

\* Whether the key finds entry e: same hash code, and eq accepts.
Matches(e, key) == e.hcode = key.hcode /\ KeyEq(e, key)

\* The ghost record of a call.
Call(op, key, ret, trig) ==
    [op |-> op, key |-> key, ret |-> ret, trig |-> trig,
     size0 |-> hm_size(hmap),
     mid0 |-> hmap.older.tab # NullTab,
     hit0 |-> \E e \in Live : Matches(e, key)]

\* The ghost rehash record after a call.
Rehash(trig, n) ==
    IF trig THEN [n |-> n, calls |-> 1]
    ELSE IF hmap.older.tab # NullTab THEN [rh EXCEPT !.calls = @ + 1]
    ELSE rh

HmInit(n) ==
    /\ hmap = Loaded(n)
    /\ loaded = 1..n
    /\ live = {}
    /\ last = [op |-> "none", key |-> NullNode, ret |-> NullNode,
               trig |-> FALSE, size0 |-> 0, mid0 |-> FALSE, hit0 |-> FALSE]
    /\ rh = [n |-> 0, calls |-> 0]
    /\ nextId = n + 1
    /\ ops = 0
    /\ aborted = FALSE

HmInsert(k) ==
    LET node == [id |-> nextId, hcode |-> k.hcode, key |-> k.key]
        a == hm_insert_add(hmap, node)
        trig == hm_insert_triggers(a)
    IN  /\ ~aborted
        /\ IF hm_insert_asserts(hmap, node)
           THEN /\ hmap' = hm_insert(hmap, node)
                /\ live' = live \cup {node}
                /\ last' = Call("insert", k, node, trig)
                /\ rh' = Rehash(trig, a.newer.size)
                /\ aborted' = FALSE
           ELSE /\ aborted' = TRUE
                /\ UNCHANGED <<hmap, live, last, rh>>
        /\ nextId' = nextId + 1
        /\ UNCHANGED loaded
        /\ ops' = ops + 1

HmLookup(k) ==
    LET r == hm_lookup(hmap, k, "KeyEq")
    IN  /\ ~aborted
        /\ hmap' = r.hmap
        /\ last' = Call("lookup", k, r.ret, FALSE)
        /\ rh' = Rehash(FALSE, 0)
        /\ ops' = ops + 1
        /\ UNCHANGED <<loaded, live, nextId, aborted>>

HmDelete(k) ==
    LET r == hm_delete(hmap, k, "KeyEq")
    IN  /\ ~aborted
        /\ hmap' = r.hmap
        /\ loaded' = loaded \ {r.ret.id}
        /\ live' = live \ {r.ret}
        /\ last' = Call("delete", k, r.ret, FALSE)
        /\ rh' = Rehash(FALSE, 0)
        /\ ops' = ops + 1
        /\ UNCHANGED <<nextId, aborted>>

\* The tree is not part of the hash map's runs.
NoTree ==
    /\ tree = <<>> /\ val = <<>> /\ root = 0 /\ tlast = "none"
    /\ tref = {} /\ tfuel = 0

\* Nor is the heap.
NoHeap ==
    /\ harr = <<>> /\ hidx = <<>> /\ hrec = {} /\ hlast = "none"
    /\ hbad = FALSE /\ hfuel = 0

\* Nor is the thread pool.
NoPool ==
    /\ mu = 0 /\ queue = <<>> /\ waiting = {} /\ wpc = <<>> /\ wtask = <<>>
    /\ ppc = <<>> /\ ptask = <<>> /\ tnext = 0 /\ appended = <<>>
    /\ removed = <<>> /\ ran = <<>> /\ busyq = FALSE
    /\ idleq = FALSE

\* The list is not part of the other runs.
NoList == dlist = <<>> /\ dlinked = <<>> /\ dfuel = 0

Init == (\E n \in Loads : HmInit(n)) /\ NoTree /\ NoHeap /\ NoPool
            /\ NoList

Next ==
    \/ \E k \in Keys : ops < MaxOps /\ HmInsert(k) /\ UNCHANGED <<tvars, pvars, qvars, lvars>>
    \/ \E k \in Keys : ops < MaxOps /\ HmLookup(k) /\ UNCHANGED <<tvars, pvars, qvars, lvars>>
    \/ \E k \in Keys : ops < MaxOps /\ HmDelete(k) /\ UNCHANGED <<tvars, pvars, qvars, lvars>>

Spec == Init /\ [][Next]_vars

\* Every entry linked in a chain of either table.
TabEntries(htab) ==
    UNION {{htab.tab[b][i] : i \in 1..Len(htab.tab[b])} :
              b \in 1..Len(htab.tab)}
Entries(h) == TabEntries(h.newer) \cup TabEntries(h.older)

\* C1: after every call hm_size() is the number of entries inserted and not
\* yet deleted, also while a rehash is in progress.
C1_SizeIsLive == hm_size(hmap) = Cardinality(Live)

C1_Witness ==
    /\ last.op = "delete" /\ last.ret # NullNode /\ last.mid0
    /\ hmap.older.size > 0 /\ hmap.newer.size > 0

\* C2: every entry inserted and not yet deleted is returned by hm_lookup:
\* with a predicate that accepts that entry alone, the entry itself; with
\* key equality, a live entry of that hash code and key.
C2_LookupFindsLive ==
    LET h == hm_lookup(hmap, NullNode, "KeyEq").hmap
        entries == Live
    IN  \A e \in entries :
            /\ hm_lookup_search(h, e, "IdEq") = e
            /\ LET r == hm_lookup_search(h, e, "KeyEq")
               IN  r \in entries /\ Matches(r, e)

\* An entry that waits in the older table after the call, and one that the
\* call has migrated, are both found.
C2_Witness ==
    /\ last.op = "lookup" /\ last.ret \in Live /\ last.mid0
    /\ last.ret \in TabEntries(hmap.older)
    /\ hmap.newer.size > 0

\* ceil(n / d) for positive d.
CeilDiv(n, d) == (n + d - 1) \div d

\* C3: once hm_insert has triggered a rehash of n entries, the older table
\* is empty and released (the engine is a single table again) after at most
\* ceil(n / 128) calls, the triggering insert counted.
C3_RehashCompletes ==
    rh.calls >= CeilDiv(rh.n, k_rehashing_work) =>
        hmap.older = EmptyHTab

C3_Witness ==
    /\ rh.n = LoadLarge + 1
    /\ rh.calls = CeilDiv(rh.n, k_rehashing_work)
    /\ hmap.older = EmptyHTab
    /\ hmap.newer.size >= LoadLarge

\* C5: hm_insert triggers a rehash exactly when, the entry added, no
\* migration is in progress and newer.size >= 8 * capacity; the trigger makes
\* the newer table the older one, installs an empty newer table of twice the
\* capacity and resets the cursor; no assertion on the way fails.
C5_TriggerExact ==
    \A k \in Keys :
        LET node == [id |-> nextId, hcode |-> k.hcode, key |-> k.key]
            a == hm_insert_add(hmap, node)
            t == hm_insert_check(a)
            cap == a.newer.mask + 1
        IN  /\ (t # a) <=> (a.older.tab = NullTab /\ a.newer.size >= 8 * cap)
            /\ t # a =>
                   /\ t.older = a.newer
                   /\ t.newer = [tab |-> [i \in 1..(2 * cap) |-> <<>>],
                                 mask |-> 2 * cap - 1, size |-> 0]
                   /\ t.migrate_pos = 0
            /\ hm_insert_asserts(hmap, node)
            /\ ~aborted

C5_Witness ==
    /\ last.op = "insert" /\ last.trig /\ rh.n = LoadLarge + 1 /\ rh.calls = 1
    /\ hmap.older.size = rh.n - k_rehashing_work
    /\ hmap.newer.mask + 1 = 2 * (hmap.older.mask + 1)

\* C6: hm_delete with a key that matches a live entry detaches and returns
\* a matching live entry, size() drops by exactly one, every other entry
\* stays linked (and found, by C2), and when no other live entry matches the
\* key a following hm_lookup of it returns null.
C6_DeleteDetaches ==
    [][(last'.op = "delete" /\ ops' = ops + 1 /\ last'.hit0) =>
          /\ last'.ret \in Live /\ Matches(last'.ret, last'.key)
          /\ hm_size(hmap') = hm_size(hmap) - 1
          /\ Entries(hmap') = Entries(hmap) \ {last'.ret}
          /\ Entries(hmap') = Live'
          /\ (\A o \in Live' : ~Matches(o, last'.key)) =>
                 hm_lookup(hmap', last'.key, "KeyEq").ret = NullNode]_vars

\* A delete that took its entry out of the older table, mid-rehash.
C6_Witness ==
    /\ last.op = "delete" /\ last.hit0 /\ last.mid0
    /\ last.ret.id <= LoadLarge /\ last.ret.hcode = LoadLarge
    /\ hmap.older.size > 0
    /\ hm_size(hmap) = last.size0 - 1

\* C7: hm_lookup and hm_delete of a key that matches no live entry return
\* null and fail no assertion, whatever state the engine is in, and leave
\* the linked entries and size() as they were.
C7_AbsentIsNull ==
    [][(last'.op \in {"lookup", "delete"} /\ ops' = ops + 1 /\ ~last'.hit0) =>
          /\ last'.ret = NullNode
          /\ ~aborted'
          /\ Entries(hmap') = Entries(hmap)
          /\ Live' = Live
          /\ hm_size(hmap') = hm_size(hmap)]_vars

\* An absent key deleted mid-rehash (the same holds from the never
\* initialised map, HmInit(0), and from a single table).
C7_Witness ==
    /\ last.op = "delete" /\ ~last.hit0 /\ last.mid0 /\ last.ret = NullNode
    /\ hmap.older.size > 0

(***************************************************************************)
(* A long rehash.  A table of DrainCap buckets rehashes DrainLoad entries  *)
(* in DrainLoad / k_rehashing_work calls, enough of them for the callers   *)
(* to delete k_rehashing_work - 1 entries out of the older table meanwhile,*)
(* which leaves a last migration step one entry short of its quota.  The   *)
(* runs start from the state the scripted calls below lead to.             *)
(***************************************************************************)
DrainCap == 32 * k_rehashing_work
DrainLoad == k_max_load_factor * DrainCap

\* DrainLoad inserts, the last of which triggers the rehash; then
\* k_rehashing_work - 1 deletes of the entries inserted last before the
\* trigger (all still in the older table when deleted); then lookups until
\* the older table holds k_rehashing_work + 1 entries.
DrainLookups == (DrainLoad \div k_rehashing_work) - 1 - k_rehashing_work - 1
DrainDeleted == (DrainLoad - k_rehashing_work + 1)..(DrainLoad - 1)
DrainStart(n) ==
    LET full == Loaded(n)
        del == IF full.migrate_pos >= 0
               THEN Replay(full, "delete", n - k_rehashing_work + 1, n - 1)
               ELSE full
    IN  IF del.migrate_pos >= 0
        THEN Replay(del, "lookup", 1, DrainLookups)
        ELSE del

\* The keys of the entries of the last bucket of the older table.
DrainKeys ==
    {[hcode |-> i * DrainCap - 1, key |-> i * DrainCap - 1] :
        i \in 1..k_max_load_factor}

MaxDrainOps == 2

DrainInit ==
    /\ hmap = DrainStart(DrainLoad)
    /\ loaded = (1..DrainLoad) \ DrainDeleted
    /\ live = {}
    /\ last = [op |-> "none", key |-> NullNode, ret |-> NullNode,
               trig |-> FALSE, size0 |-> 0, mid0 |-> FALSE, hit0 |-> FALSE]
    /\ rh = [n |-> DrainLoad,
             calls |-> 1 + Cardinality(DrainDeleted) + DrainLookups]
    /\ nextId = DrainLoad + 1
    /\ ops = 0
    /\ aborted = FALSE
    /\ NoTree
    /\ NoHeap
    /\ NoPool
    /\ NoList

DrainNext ==
    \/ \E k \in DrainKeys : ops < MaxDrainOps /\ HmInsert(k) /\ UNCHANGED <<tvars, pvars, qvars, lvars>>
    \/ \E k \in DrainKeys : ops < MaxDrainOps /\ HmLookup(k) /\ UNCHANGED <<tvars, pvars, qvars, lvars>>
    \/ \E k \in DrainKeys : ops < MaxDrainOps /\ HmDelete(k) /\ UNCHANGED <<tvars, pvars, qvars, lvars>>

SpecDrain == DrainInit /\ [][DrainNext]_vars

\* C4: after every public call the older table's bucket array is non-null
\* only while the older table still holds an entry awaiting migration; a
\* drained older table has been released and reset.
C4_OlderOnlyWhileRehashing ==
    hmap.older.tab # NullTab => hmap.older.size > 0

(***************************************************************************)
(* The AVL tree (avl.h, avl.cpp) and the container of its test driver      *)
(* (test_avl.cpp), whose add and del attach and remove the nodes.  A node  *)
(* is a slot of the heap `tree`; pointer 0 is null.                        *)
(***************************************************************************)
MaxTreeOps == 6
MaxBigOps == 2
MaxVal == 3

\* The level order of the minimal AVL tree of height 5 on the values 1..12:
\* added in this order, no add rotates.
BigOrder == <<8, 5, 11, 3, 7, 10, 12, 2, 4, 6, 9, 1>>

\* The slots nodes are allocated from.
NumSlots ==
    IF MaxTreeOps > Len(BigOrder) + MaxBigOps
    THEN MaxTreeOps ELSE Len(BigOrder) + MaxBigOps
Slots == 1..NumSlots
Vals == 0..MaxVal

\* A slot that holds no node (freed, or never allocated).
FreeNode == [parent |-> 0, left |-> 0, right |-> 0, height |-> 0, cnt |-> 0]

\* avl_init: no links, height 1, cnt 1.
avl_init == [parent |-> 0, left |-> 0, right |-> 0, height |-> 1, cnt |-> 1]

\* avl_height, avl_cnt: 0 for a null node.
avl_height(t, n) == IF n = 0 THEN 0 ELSE t[n].height
avl_cnt(t, n) == IF n = 0 THEN 0 ELSE t[n].cnt

max(lhs, rhs) == IF lhs < rhs THEN rhs ELSE lhs

\* avl_update: recompute height and cnt of a node from its children.
avl_update(t, n) ==
    [t EXCEPT ![n].height =
                  1 + max(avl_height(t, t[n].left), avl_height(t, t[n].right)),
              ![n].cnt =
                  1 + avl_cnt(t, t[n].left) + avl_cnt(t, t[n].right)]

\* A faulty rot_left that updates the new subtree root before the node that
\* became its child.
rot_left_stale(t, node) ==
    LET parent == t[node].parent
        new_node == t[node].right
        inner == t[t[node].right].left
        linked == [t EXCEPT ![node].right = inner,
                            ![new_node].parent = parent,
                            ![new_node].left = node,
                            ![node].parent = new_node]
    IN  [t |-> avl_update(
                   avl_update(IF inner # 0
                              THEN [linked EXCEPT ![inner].parent = node]
                              ELSE linked, new_node), node),
         ret |-> new_node]

\* rot_left: [t the heap after, ret the new subtree root].
rot_left(t, node) ==
    LET parent == t[node].parent
        new_node == t[node].right
        inner == t[t[node].right].left
        linked == [t EXCEPT ![node].right = inner,
                            ![new_node].parent = parent,
                            ![new_node].left = node,
                            ![node].parent = new_node]
    IN  [t |-> avl_update(
                   avl_update(IF inner # 0
                              THEN [linked EXCEPT ![inner].parent = node]
                              ELSE linked, node), new_node),
         ret |-> new_node]

\* A faulty rot_right that leaves the parent link of the inner subtree
\* pointing at the new subtree root.
rot_right_inner(t, node) ==
    LET parent == t[node].parent
        new_node == t[node].left
        inner == t[t[node].left].right
        linked == [t EXCEPT ![node].left = inner,
                            ![new_node].parent = parent,
                            ![new_node].right = node,
                            ![node].parent = new_node]
    IN  [t |-> avl_update(avl_update(linked, node), new_node),
         ret |-> new_node]

\* rot_right: the mirror image.
rot_right(t, node) ==
    LET parent == t[node].parent
        new_node == t[node].left
        inner == t[t[node].left].right
        linked == [t EXCEPT ![node].left = inner,
                            ![new_node].parent = parent,
                            ![new_node].right = node,
                            ![node].parent = new_node]
    IN  [t |-> avl_update(
                   avl_update(IF inner # 0
                              THEN [linked EXCEPT ![inner].parent = node]
                              ELSE linked, node), new_node),
         ret |-> new_node]

\* node->left = rot_left(node->left), node->right = rot_right(node->right):
\* store the root r.ret of a rotated child subtree in the parent's link.
StoreLeft(r, node) == [r.t EXCEPT ![node].left = r.ret]
StoreRight(r, node) == [r.t EXCEPT ![node].right = r.ret]

\* A faulty avl_fix_left that never rotates the left child first.
avl_fix_left_single(t, node) == rot_right(t, node)

\* avl_fix_left: the left subtree is 2 taller; rotate the left child left
\* first when its right subtree is the taller one.
avl_fix_left(t, node) ==
    IF avl_height(t, t[t[node].left].left)
           < avl_height(t, t[t[node].left].right)
    THEN rot_right(StoreLeft(rot_left(t, t[node].left), node), node)
    ELSE rot_right(t, node)

\* avl_fix_right: the mirror image.
avl_fix_right(t, node) ==
    IF avl_height(t, t[t[node].right].right)
           < avl_height(t, t[t[node].right].left)
    THEN rot_left(StoreRight(rot_right(t, t[node].right), node), node)
    ELSE rot_left(t, node)

\* *from = sub, where from is the slot of parent that pointed at node (its
\* left pointer when parent->left == node held, else its right pointer).
SetChild(t, parent, isLeft, sub) ==
    IF isLeft THEN [t EXCEPT ![parent].left = sub]
    ELSE [t EXCEPT ![parent].right = sub]

\* One iteration of avl_fix after avl_update(node): rotate when one side is
\* 2 taller; [t the heap, ret the root of the fixed subtree].
avl_fix_node(t, node) ==
    IF avl_height(t, t[node].left) = avl_height(t, t[node].right) + 2
    THEN avl_fix_left(t, node)
    ELSE IF avl_height(t, t[node].left) + 2 = avl_height(t, t[node].right)
    THEN avl_fix_right(t, node)
    ELSE [t |-> t, ret |-> node]

\* avl_fix: from node up to the root, update and rotate; returns the root.
\* avl_fix_from stores the fixed subtree in *from and continues at parent.
RECURSIVE avl_fix(_, _)
avl_fix_from(fixed, parent, isLeft) ==
    IF parent = 0 THEN fixed
    ELSE avl_fix(SetChild(fixed.t, parent, isLeft, fixed.ret), parent)

avl_fix(t, node) ==
    avl_fix_from(avl_fix_node(avl_update(t, node), node), t[node].parent,
                 t[node].parent # 0 /\ t[t[node].parent].left = node)

\* assert(!node->left || !node->right) of avl_del_easy.
avl_del_easy_assert(t, node) == t[node].left = 0 \/ t[node].right = 0

\* A faulty avl_del_easy that returns the node it rebalanced from, not the
\* root avl_fix returned.
avl_del_easy_parent(t, node) ==
    LET child == IF t[node].left # 0 THEN t[node].left ELSE t[node].right
        parent == t[node].parent
        t1 == IF child # 0 THEN [t EXCEPT ![child].parent = parent] ELSE t
    IN  IF parent = 0 THEN [t |-> t1, ret |-> child]
        ELSE [t |-> avl_fix(SetChild(t1, parent, t[parent].left = node,
                                     child), parent).t,
              ret |-> parent]

\* avl_del_easy: splice out a node with at most one child.
avl_del_easy(t, node) ==
    LET child == IF t[node].left # 0 THEN t[node].left ELSE t[node].right
        parent == t[node].parent
        t1 == IF child # 0 THEN [t EXCEPT ![child].parent = parent] ELSE t
    IN  IF parent = 0 THEN [t |-> t1, ret |-> child]
        ELSE avl_fix(SetChild(t1, parent, t[parent].left = node, child), parent)

\* A faulty successor search that walks down the right links.
RECURSIVE avl_leftmost_right(_, _)
avl_leftmost_right(t, victim) ==
    IF t[victim].right # 0 THEN avl_leftmost_right(t, t[victim].right)
    ELSE victim

\* The successor search of avl_del: from node->right down the left links.
RECURSIVE avl_leftmost(_, _)
avl_leftmost(t, victim) ==
    IF t[victim].left # 0 THEN avl_leftmost(t, t[victim].left) ELSE victim

\* A faulty tail of avl_del that never stores victim in the link of the
\* node's parent.
avl_del_swap_unlinked(e, node, victim) ==
    LET nd == e.t[node]
        t1 == [e.t EXCEPT ![victim] = nd]
        t2 == IF nd.left # 0 THEN [t1 EXCEPT ![nd.left].parent = victim]
              ELSE t1
        t3 == IF nd.right # 0 THEN [t2 EXCEPT ![nd.right].parent = victim]
              ELSE t2
    IN  [t |-> t3, ret |-> IF nd.parent # 0 THEN e.ret ELSE victim]

\* The tail of avl_del: e is what avl_del_easy(victim) returned; victim takes
\* over the fields of node, its children and the link of its parent.
avl_del_swap(e, node, victim) ==
    LET nd == e.t[node]
        t1 == [e.t EXCEPT ![victim] = nd]
        t2 == IF nd.left # 0 THEN [t1 EXCEPT ![nd.left].parent = victim]
              ELSE t1
        t3 == IF nd.right # 0 THEN [t2 EXCEPT ![nd.right].parent = victim]
              ELSE t2
    IN  IF nd.parent # 0
        THEN [t |-> SetChild(t3, nd.parent, t3[nd.parent].left = node, victim),
              ret |-> e.ret]
        ELSE [t |-> t3, ret |-> victim]

avl_del_victim(t, node, victim) ==
    avl_del_swap(avl_del_easy(t, victim), node, victim)

\* avl_del: the easy case, or remove the successor and patch it into the
\* place of the node.
avl_del(t, node) ==
    IF t[node].left = 0 \/ t[node].right = 0 THEN avl_del_easy(t, node)
    ELSE avl_del_victim(t, node, avl_leftmost(t, t[node].right))

\* The search loop of add: the node the new one hangs under, and the side.
RECURSIVE add_search(_, _, _, _)
add_search(t, vs, cur, v) ==
    LET next == IF v < vs[cur] THEN t[cur].left ELSE t[cur].right
    IN  IF next = 0 THEN [cur |-> cur, isLeft |-> v < vs[cur]]
        ELSE add_search(t, vs, next, v)

\* *from = &data->node of add: hang node n under at.cur on side at.isLeft.
add_attach(t, at, n) ==
    [SetChild(t, at.cur, at.isLeft, n) EXCEPT ![n].parent = at.cur]

\* add of test_avl.cpp: attach a new node n with value v, then avl_fix.
add(t, vs, rt, n, v) ==
    IF rt = 0 THEN avl_fix([t EXCEPT ![n] = avl_init], n)
    ELSE avl_fix(add_attach([t EXCEPT ![n] = avl_init],
                            add_search(t, [vs EXCEPT ![n] = v], rt, v), n), n)

\* The tree after add of the values seq[k], ..., seq[Len(seq)] into the
\* slots k, k + 1, ... of the tree b.
BuiltAdd(r, vs, k, v) ==
    [t |-> r.t, val |-> [vs EXCEPT ![k] = v], ret |-> r.ret]

RECURSIVE BuiltFrom(_, _, _)
BuiltFrom(b, seq, k) ==
    IF k > Len(seq) THEN b
    ELSE BuiltFrom(BuiltAdd(add(b.t, b.val, b.ret, k, seq[k]),
                            b.val, k, seq[k]), seq, k + 1)

Built(seq) ==
    BuiltFrom([t |-> [n \in Slots |-> FreeNode], val |-> [n \in Slots |-> 0],
               ret |-> 0], seq, 1)

\* The slots that hold a node.
Allocated == {n \in Slots : tree[n].height # 0}

TreeInitFrom(seq, fuel) ==
    /\ \E b \in {Built(seq)} :
           /\ tree = b.t
           /\ val = b.val
           /\ root = b.ret
    /\ tlast = [op |-> "none", node |-> 0, two |-> FALSE, root0 |-> 0]
    /\ tref = 1..Len(seq)
    /\ tfuel = fuel

\* add(c, v): the new node takes the lowest free slot.
AvlAdd(v) ==
    /\ tfuel > 0
    /\ Slots \ Allocated # {}
    /\ \E n \in Slots \ Allocated :
           /\ \A y \in Slots \ Allocated : n <= y
           /\ \E r \in {add(tree, val, root, n, v)} :
                  /\ tree' = r.t
                  /\ root' = r.ret
           /\ val' = [val EXCEPT ![n] = v]
           /\ tlast' = [op |-> "add", node |-> n, two |-> FALSE, root0 |-> root]
           /\ tref' = tref \cup {n}
    /\ tfuel' = tfuel - 1

\* c.root = avl_del(node); delete node: any node of the tree.
AvlDel(n) ==
    /\ tfuel > 0
    /\ n \in Allocated
    /\ \E r \in {avl_del(tree, n)} :
           /\ tree' = [r.t EXCEPT ![n] = FreeNode]
           /\ root' = r.ret
    /\ val' = [val EXCEPT ![n] = 0]
    /\ tlast' = [op |-> "del", node |-> n,
                 two |-> tree[n].left # 0 /\ tree[n].right # 0,
                 root0 |-> root]
    /\ tref' = tref \ {n}
    /\ tfuel' = tfuel - 1

\* The hash map is not part of the tree's runs.
NoMap ==
    /\ hmap = EmptyHMap /\ loaded = {} /\ live = {} /\ last = "none"
    /\ rh = [n |-> 0, calls |-> 0] /\ nextId = 1 /\ ops = 0
    /\ aborted = FALSE

AvlInit ==
    /\ \/ TreeInitFrom(<<>>, MaxTreeOps)
       \/ TreeInitFrom(BigOrder, MaxBigOps)
    /\ NoMap
    /\ NoHeap
    /\ NoPool
    /\ NoList

AvlNext ==
    \/ \E v \in Vals : AvlAdd(v) /\ UNCHANGED <<hvars, pvars, qvars, lvars>>
    \/ \E n \in Slots : AvlDel(n) /\ UNCHANGED <<hvars, pvars, qvars, lvars>>

SpecAVL == AvlInit /\ [][AvlNext]_vars

\* The nodes reachable from n by child links, at most d levels down.
RECURSIVE Reach(_, _)
Reach(n, d) ==
    IF n = 0 \/ d = 0 THEN {}
    ELSE {n} \cup Reach(tree[n].left, d - 1) \cup Reach(tree[n].right, d - 1)
TreeNodes == Reach(root, NumSlots)

\* The height of the subtree of n, counted along the child links.
RECURSIVE Depth(_, _)
Depth(n, d) ==
    IF n = 0 \/ d = 0 THEN 0
    ELSE 1 + max(Depth(tree[n].left, d - 1), Depth(tree[n].right, d - 1))

\* The values of the subtree of n in in-order.
RECURSIVE InOrder(_, _)
InOrder(n, d) ==
    IF n = 0 \/ d = 0 THEN <<>>
    ELSE InOrder(tree[n].left, d - 1) \o <<val[n]>>
         \o InOrder(tree[n].right, d - 1)

\* C8: after every add (attach and avl_fix) and every avl_del, the heights
\* of the two subtrees of every node of the tree differ by at most 1 (the
\* stored heights, and the heights counted along the links).
C8_Balanced ==
    \A n \in TreeNodes :
        LET l == avl_height(tree, tree[n].left)
            r == avl_height(tree, tree[n].right)
            dl == Depth(tree[n].left, NumSlots)
            dr == Depth(tree[n].right, NumSlots)
        IN  /\ l - r \in {-1, 0, 1}
            /\ dl - dr \in {-1, 0, 1}

\* A two-children avl_del after which the old root, still in the tree, is
\* no longer the root: the removal of the successor rotated at the root.
C8_Witness ==
    /\ tlast.op = "del" /\ tlast.two
    /\ tlast.root0 # tlast.node /\ tlast.root0 # root
    /\ Cardinality(TreeNodes) >= Len(BigOrder) - 1

\* C9: after every add and every avl_del, each node's stored height is
\* 1 + max of its children's stored heights and its stored cnt is 1 + the
\* sum of its children's, a null child counting 0 for both.
C9_HeightCntStored ==
    \A n \in TreeNodes :
        /\ tree[n].height =
               1 + max(avl_height(tree, tree[n].left),
                       avl_height(tree, tree[n].right))
        /\ tree[n].cnt =
               1 + avl_cnt(tree, tree[n].left) + avl_cnt(tree, tree[n].right)

\* An add that rotated at the root of a tree of at least 6 nodes.
C9_Witness ==
    /\ tlast.op = "add" /\ tlast.root0 # 0 /\ tlast.root0 # root
    /\ tree[root].cnt >= 6 /\ tree[root].height = 3

\* C10: nodes being attached at their search position, after every avl_fix
\* and every avl_del (the two-children case included) the in-order
\* traversal of the tree is non-decreasing in the value.
C10_InOrderSorted ==
    LET s == InOrder(root, NumSlots)
    IN  \A i \in 1..(Len(s) - 1) : s[i] <= s[i + 1]

\* A two-children avl_del whose successor took over the place of the root.
C10_Witness ==
    /\ tlast.op = "del" /\ tlast.two /\ tlast.root0 = tlast.node
    /\ root # 0 /\ tree[root].left # 0 /\ tree[root].right # 0
    /\ tree[root].cnt >= Len(BigOrder) - 1

\* The number of times v occurs in the sequence s.
Count(s, v) == Cardinality({i \in 1..Len(s) : s[i] = v})

\* C11: after any sequence of adds (duplicate values allowed) and deletes
\* the nodes reachable from the root are exactly the nodes added and not yet
\* deleted, so avl_del has removed the given node and no other; the values
\* in the tree are the values of those nodes, each as often; and
\* avl_cnt(root) is their number.
C11_TreeIsReference ==
    LET s == InOrder(root, NumSlots)
    IN  /\ TreeNodes = tref
        /\ Len(s) = Cardinality(tref)
        /\ \A n \in tref :
               Count(s, val[n]) = Cardinality({m \in tref : val[m] = val[n]})
        /\ avl_cnt(tree, root) = Cardinality(tref)

\* A two-children avl_del of one of two nodes that carry the same value:
\* the other one is still in the tree.
C11_Witness ==
    /\ tlast.op = "del" /\ tlast.two
    /\ \E m \in tref : \E n \in tref : m # n /\ val[m] = val[n]
    /\ Cardinality(tref) >= 3

(***************************************************************************)
(* avl_offset (avl.cpp): the node a number of in-order places away.        *)
(***************************************************************************)
\* A faulty descent that leaves the stepped-over node out of the position.
avl_offset_right_short(t, st) ==
    [node |-> t[st.node].right,
     pos |-> st.pos + avl_cnt(t, t[t[st.node].right].left)]

\* node = node->right; pos += avl_cnt(node->left) + 1.
avl_offset_right(t, st) ==
    [node |-> t[st.node].right,
     pos |-> st.pos + avl_cnt(t, t[t[st.node].right].left) + 1]

\* node = node->left; pos -= avl_cnt(node->right) + 1.
avl_offset_left(t, st) ==
    [node |-> t[st.node].left,
     pos |-> st.pos - (avl_cnt(t, t[t[st.node].left].right) + 1)]

\* A faulty step to the parent that takes every node for a left child.
avl_offset_up_left(t, st) ==
    IF t[st.node].parent = 0 THEN [node |-> 0, pos |-> st.pos]
    ELSE [node |-> t[st.node].parent,
          pos |-> st.pos + avl_cnt(t, t[st.node].right) + 1]

\* The step to the parent; node 0 stands for the return of NULL at the root.
avl_offset_up(t, st) ==
    IF t[st.node].parent = 0 THEN [node |-> 0, pos |-> st.pos]
    ELSE IF t[t[st.node].parent].right = st.node
    THEN [node |-> t[st.node].parent,
          pos |-> st.pos - (avl_cnt(t, t[st.node].left) + 1)]
    ELSE [node |-> t[st.node].parent,
          pos |-> st.pos + avl_cnt(t, t[st.node].right) + 1]

\* One iteration of the loop of avl_offset, on the loop state [node, pos].
avl_offset_iter(t, st, offset) ==
    IF st.pos < offset /\ st.pos + avl_cnt(t, t[st.node].right) >= offset
    THEN avl_offset_right(t, st)
    ELSE IF st.pos > offset /\ st.pos - avl_cnt(t, t[st.node].left) <= offset
    THEN avl_offset_left(t, st)
    ELSE avl_offset_up(t, st)

\* The loop of avl_offset: the node returned, 0 for NULL; -1 when the loop
\* is still running after fuel iterations.
RECURSIVE avl_offset_loop(_, _, _, _)
avl_offset_loop(t, st, offset, fuel) ==
    IF st.node = 0 THEN 0
    ELSE IF offset = st.pos THEN st.node
    ELSE IF fuel = 0 THEN -1
    ELSE avl_offset_loop(t, avl_offset_iter(t, st, offset), offset, fuel - 1)

\* avl_offset.  Every iteration moves along one link, and no walk between
\* two nodes or up to the root is longer than twice the number of nodes.
avl_offset(t, node, offset) ==
    avl_offset_loop(t, [node |-> node, pos |-> 0], offset, 2 * NumSlots)

\* The nodes of the subtree of n in in-order.
RECURSIVE InOrderNodes(_, _)
InOrderNodes(n, d) ==
    IF n = 0 \/ d = 0 THEN <<>>
    ELSE InOrderNodes(tree[n].left, d - 1) \o <<n>>
         \o InOrderNodes(tree[n].right, d - 1)

\* The offsets asked for: every one that stays inside a tree and some that
\* leave it on either side.
Offsets == (-(NumSlots + 1))..(NumSlots + 1)

\* C12: for the node at in-order rank r of a tree of n nodes and every
\* offset k, avl_offset returns the node at rank r + k when that rank is in
\* the tree, and null when it is not.
C12_OffsetIsRank ==
    LET s == InOrderNodes(root, NumSlots)
    IN  \A r \in 1..Len(s) : \A k \in Offsets :
            avl_offset(tree, s[r], k) =
                IF 1 <= r + k /\ r + k <= Len(s) THEN s[r + k] ELSE 0

\* A tree of at least 12 nodes after a delete, where the offset n - 1 from
\* the first node reaches the last node and one more is null.
C12_Witness ==
    LET s == InOrderNodes(root, NumSlots)
    IN  /\ tlast.op = "del" /\ Len(s) >= Len(BigOrder)
        /\ avl_offset(tree, s[1], Len(s) - 1) = s[Len(s)]
        /\ s[1] # s[Len(s)]
        /\ avl_offset(tree, s[1], Len(s)) = 0

\* C13: whenever avl_offset(n, k) returns a node m, avl_offset(m, -k)
\* returns n.
C13_OffsetInverse ==
    \A n \in TreeNodes : \A k \in Offsets :
        LET m == avl_offset(tree, n, k)
        IN  m # 0 => avl_offset(tree, m, -k) = n

\* A walk from the last node of the left subtree of the root to the first
\* node of its right subtree, and back, in a tree of at least 12 nodes.
C13_Witness ==
    LET l == InOrderNodes(tree[root].left, NumSlots)
        r == InOrderNodes(tree[root].right, NumSlots)
    IN  /\ root # 0 /\ l # <<>> /\ r # <<>>
        /\ Len(l) + Len(r) + 1 >= Len(BigOrder)
        /\ avl_offset(tree, l[Len(l)], 2) = r[1]
        /\ avl_offset(tree, r[1], -2) = l[Len(l)]
        /\ tlast.op = "add"

(***************************************************************************)
(* The binary min-heap (heap.h, heap.cpp) and the container of its test    *)
(* driver (test_heap.cpp).  A heap is [a, idx]: a is the array of          *)
(* HeapItem [val, ref], element i of the code being a[i + 1]; ref names    *)
(* the record whose heap_idx the item points at, and idx holds the         *)
(* heap_idx of every record.                                               *)
(***************************************************************************)
MaxHeapOps == 4
MaxHeapBigOps == 2
MaxHeapVal == 3

\* The values added first to the larger heap the runs start from.
HeapOrder == <<0, 3, 1, 3, 3, 1, 2>>

NumData ==
    IF MaxHeapOps > Len(HeapOrder) + MaxHeapBigOps
    THEN MaxHeapOps ELSE Len(HeapOrder) + MaxHeapBigOps
DataIds == 1..NumData
HeapVals == 0..MaxHeapVal

heap_parent(i) == (i + 1) \div 2 - 1
heap_left(i) == i * 2 + 1
heap_right(i) == i * 2 + 2

\* a[pos] = item; *a[pos].ref = pos.  (A ref that points at no record's
\* heap_idx writes outside the model.)
heap_put(hp, pos, item) ==
    [a |-> [hp.a EXCEPT ![pos + 1] = item],
     idx |-> IF item.ref \in DOMAIN hp.idx
             THEN [hp.idx EXCEPT ![item.ref] = pos] ELSE hp.idx]

\* A faulty move that leaves the back-reference of the moved item stale.
heap_move_noref(hp, pos, from) ==
    [a |-> [hp.a EXCEPT ![pos + 1] = hp.a[from + 1]], idx |-> hp.idx]

\* a[pos] = a[from]; *a[pos].ref = pos: the move inside the sifting loops.
heap_move(hp, pos, from) == heap_put(hp, pos, hp.a[from + 1])

\* The loop of heap_up and the store after it; t is the item moved up.
RECURSIVE heap_up_loop(_, _, _)
heap_up_loop(hp, t, pos) ==
    IF pos > 0 /\ hp.a[heap_parent(pos) + 1].val > t.val
    THEN heap_up_loop(heap_move(hp, pos, heap_parent(pos)), t,
                      heap_parent(pos))
    ELSE heap_put(hp, pos, t)

heap_up(hp, pos) == heap_up_loop(hp, hp.a[pos + 1], pos)

\* A faulty choice that always takes the left child when it is smaller.
heap_min_pos_left(a, t, pos, len) ==
    IF heap_left(pos) < len /\ a[heap_left(pos) + 1].val < t.val
    THEN heap_left(pos) ELSE pos

\* min_pos of heap_down: the smallest among t and the children of pos.
heap_min_pos(a, t, pos, len) ==
    LET l == heap_left(pos)
        r == heap_right(pos)
        min_pos == IF l < len /\ a[l + 1].val < t.val THEN l ELSE pos
        min_val == IF l < len /\ a[l + 1].val < t.val
                   THEN a[l + 1].val ELSE t.val
    IN  IF r < len /\ a[r + 1].val < min_val THEN r ELSE min_pos

\* The loop of heap_down and the store after it; t is the item moved down.
RECURSIVE heap_down_loop(_, _, _, _)
heap_down_loop(hp, t, pos, len) ==
    IF heap_min_pos(hp.a, t, pos, len) = pos THEN heap_put(hp, pos, t)
    ELSE heap_down_loop(
             heap_move(hp, pos, heap_min_pos(hp.a, t, pos, len)),
             t, heap_min_pos(hp.a, t, pos, len), len)

heap_down(hp, pos, len) == heap_down_loop(hp, hp.a[pos + 1], pos, len)

\* The test of heap_update: whether the element goes up.
heap_update_up(hp, pos) ==
    pos > 0 /\ hp.a[heap_parent(pos) + 1].val > hp.a[pos + 1].val

\* heap_update: heap_up when the parent is larger, else heap_down.
heap_update(hp, pos, len) ==
    IF heap_update_up(hp, pos) THEN heap_up(hp, pos)
    ELSE heap_down(hp, pos, len)

\* The elements heap_update reads before anything else (line 217, and line
\* 187 of heap_down when pos is 0).
heap_update_reads(pos) ==
    IF pos > 0 THEN {heap_parent(pos), pos} ELSE {pos}

\* add of test_heap.cpp for record d: push_back, then heap_update at the
\* last index.
heap_add(hp, d, v) ==
    heap_update([a |-> Append(hp.a, [val |-> v, ref |-> d]), idx |-> hp.idx],
                Len(hp.a), Len(hp.a) + 1)

\* The asserts of del: heap.at(d->heap_idx) exists, carries the value and
\* points back at the record.
heap_del_asserts(hp, d, v) ==
    /\ 0 <= hp.idx[d] /\ hp.idx[d] < Len(hp.a)
    /\ hp.a[hp.idx[d] + 1].val = v
    /\ hp.a[hp.idx[d] + 1].ref = d

\* A faulty removal that drops the last element and keeps the doomed one.
heap_del_pop(a, pos) == SubSeq(a, 1, Len(a) - 1)

\* heap[pos] = heap.back(); heap.pop_back().
heap_del_move(a, pos) ==
    SubSeq([a EXCEPT ![pos + 1] = a[Len(a)]], 1, Len(a) - 1)

\* del of test_heap.cpp after its asserts: move the last element into the
\* slot of the record, shrink, heap_update there if still in range; the
\* record is freed.
heap_del(hp, d) ==
    IF hp.idx[d] < Len(hp.a) - 1
    THEN heap_update([a |-> heap_del_move(hp.a, hp.idx[d]), idx |-> hp.idx],
                     hp.idx[d], Len(hp.a) - 1)
    ELSE [a |-> heap_del_move(hp.a, hp.idx[d]), idx |-> hp.idx]

\* A priority change: the owner stores the new value in its element and
\* calls heap_update at the element's index.
heap_change(hp, d, v) ==
    heap_update([a |-> [hp.a EXCEPT ![hp.idx[d] + 1].val = v],
                 idx |-> hp.idx], hp.idx[d], Len(hp.a))

\* The heap after add of seq[k], ..., seq[Len(seq)] for the records k, ...
RECURSIVE HeapBuiltFrom(_, _, _)
HeapBuiltFrom(hp, seq, k) ==
    IF k > Len(seq) THEN hp
    ELSE HeapBuiltFrom(heap_add(hp, k, seq[k]), seq, k + 1)

HeapBuilt(seq) ==
    HeapBuiltFrom([a |-> <<>>, idx |-> [d \in DataIds |-> -1]], seq, 1)

HeapInitFrom(seq, fuel) ==
    /\ \E hp \in {HeapBuilt(seq)} : harr = hp.a /\ hidx = hp.idx
    /\ hrec = {[d |-> k, val |-> seq[k]] : k \in 1..Len(seq)}
    /\ hlast = [op |-> "none", d |-> 0, pos |-> -1, up |-> FALSE, len0 |-> 0]
    /\ hbad = FALSE
    /\ hfuel = fuel

\* The records allocated.
HeapLive == {r.d : r \in hrec}

\* add(c, v): a new record (the lowest free one), the map, the heap.
HeapAdd(v) ==
    /\ hfuel > 0 /\ ~hbad
    /\ \E d \in DataIds \ HeapLive :
           /\ \A e \in DataIds \ HeapLive : d <= e
           /\ \E hp \in {heap_add([a |-> harr, idx |-> hidx], d, v)} :
                  harr' = hp.a /\ hidx' = hp.idx
           /\ hrec' = hrec \cup {[d |-> d, val |-> v]}
           /\ hlast' = [op |-> "add", d |-> d, pos |-> Len(harr),
                        up |-> heap_update_up(
                                   [a |-> Append(harr, [val |-> v, ref |-> d]),
                                    idx |-> hidx], Len(harr)),
                        len0 |-> Len(harr)]
    /\ hfuel' = hfuel - 1
    /\ UNCHANGED hbad

\* del(c, r.val), where map.find returned the record r.
HeapDel(r) ==
    /\ hfuel > 0 /\ ~hbad
    /\ r \in hrec
    /\ IF heap_del_asserts([a |-> harr, idx |-> hidx], r.d, r.val)
       THEN /\ \E hp \in {heap_del([a |-> harr, idx |-> hidx], r.d)} :
                   /\ harr' = hp.a
                   /\ hidx' = [hp.idx EXCEPT ![r.d] = -1]
            /\ hrec' = hrec \ {r}
            /\ hlast' = [op |-> "del", d |-> r.d, pos |-> hidx[r.d],
                         up |-> /\ hidx[r.d] < Len(harr) - 1
                                /\ heap_update_up(
                                       [a |-> heap_del_move(harr, hidx[r.d]),
                                        idx |-> hidx], hidx[r.d]),
                         len0 |-> Len(harr)]
            /\ hfuel' = hfuel - 1
       ELSE /\ hlast' = [op |-> "abort", d |-> r.d, pos |-> hidx[r.d],
                         up |-> FALSE, len0 |-> Len(harr)]
            /\ hfuel' = 0
            /\ UNCHANGED <<harr, hidx, hrec>>
    /\ UNCHANGED hbad

\* A priority change of record r to the value v.
HeapChange(r, v) ==
    /\ hfuel > 0 /\ ~hbad
    /\ r \in hrec /\ v # r.val
    /\ \E hp \in {heap_change([a |-> harr, idx |-> hidx], r.d, v)} :
           harr' = hp.a /\ hidx' = hp.idx
    /\ hrec' = (hrec \ {r}) \cup {[d |-> r.d, val |-> v]}
    /\ hlast' = [op |-> "change", d |-> r.d, pos |-> hidx[r.d],
                 up |-> heap_update_up(
                            [a |-> [harr EXCEPT ![hidx[r.d] + 1].val = v],
                             idx |-> hidx], hidx[r.d]),
                 len0 |-> Len(harr)]
    /\ hfuel' = hfuel - 1
    /\ UNCHANGED hbad

HeapInit ==
    /\ \/ HeapInitFrom(<<>>, MaxHeapOps)
       \/ HeapInitFrom(HeapOrder, MaxHeapBigOps)
    /\ NoMap
    /\ NoTree
    /\ NoPool
    /\ NoList

HeapNext ==
    \/ \E v \in HeapVals : HeapAdd(v) /\ UNCHANGED <<hvars, tvars, qvars, lvars>>
    \/ \E r \in hrec : HeapDel(r) /\ UNCHANGED <<hvars, tvars, qvars, lvars>>
    \/ \E r \in hrec : \E v \in HeapVals :
           HeapChange(r, v) /\ UNCHANGED <<hvars, tvars, qvars, lvars>>

SpecHeap == HeapInit /\ [][HeapNext]_vars

\* The values of the heap array, in array order.
HeapValues == [i \in 1..Len(harr) |-> harr[i].val]

\* C14: starting from an empty heap, after any sequence of inserts,
\* priority changes and deletes done by the caller protocol, every element
\* at index i has a value <= the values at the indices 2i+1 and 2i+2 that
\* are within the array.
C14_HeapOrder ==
    \A i \in 0..(Len(harr) - 1) :
        /\ heap_left(i) < Len(harr)
               => harr[i + 1].val <= harr[heap_left(i) + 1].val
        /\ heap_right(i) < Len(harr)
               => harr[i + 1].val <= harr[heap_right(i) + 1].val

\* A priority change of the root of a heap of three full levels that sifted
\* the element down to the last level.
C14_Witness ==
    /\ hlast.op = "change" /\ hlast.pos = 0 /\ ~hlast.up
    /\ Len(harr) >= 7
    /\ hidx[hlast.d] >= 3

\* C15: when heap_update returns after an insert, a priority change or a
\* delete of the caller protocol, every element of the array has its
\* back-reference slot equal to its own array index, the elements relocated
\* by sifting included.
C15_BackRefs ==
    \A i \in 0..(Len(harr) - 1) :
        /\ harr[i + 1].ref \in DataIds
        /\ hidx[harr[i + 1].ref] = i

\* A delete whose moved element was sifted up, relocating its parent.
C15_Witness ==
    /\ hlast.op = "del" /\ hlast.up
    /\ hlast.pos >= 3
    /\ \E i \in 0..(Len(harr) - 1) :
           i < hlast.pos /\ heap_parent(hlast.pos) = i
           /\ harr[hlast.pos + 1].ref # hlast.d

\* C16: after any sequence of inserts and deletes of the caller protocol
\* the heap array holds exactly the values inserted and not yet deleted
\* (same length, same multiset), the element found through a record's
\* back-reference carries that record's value, and a[0] is the minimum.
C16_TracksRecords ==
    /\ hlast.op # "abort"
    /\ Len(harr) = Cardinality(hrec)
    /\ \A v \in HeapVals :
           Count(HeapValues, v) = Cardinality({r \in hrec : r.val = v})
    /\ \A r \in hrec :
           /\ 0 <= hidx[r.d] /\ hidx[r.d] < Len(harr)
           /\ harr[hidx[r.d] + 1].val = r.val
    /\ \A r \in hrec : harr[1].val <= r.val

\* A delete of an inner element of a heap that holds equal values.
C16_Witness ==
    /\ hlast.op = "del"
    /\ hlast.pos < hlast.len0 - 1
    /\ Len(harr) >= 6
    /\ \E r1, r2 \in hrec : r1.d # r2.d /\ r1.val = r2.val

(***************************************************************************)
(* heap_update called directly with any position.  The C array has no      *)
(* length of its own: reading an element at or past len is undefined, and  *)
(* gives whatever item the memory there holds, a value and a pointer that  *)
(* is either the heap_idx of a live record or wild (0; a store through it  *)
(* lands outside the model).                                               *)
(***************************************************************************)
HeapGarbage == [val : HeapVals, ref : HeapLive \cup {0}]

\* The array with the memory past its end, up to element pos, holding g.
heap_extended(a, pos, g) ==
    IF pos < Len(a) THEN a ELSE a \o [i \in 1..(pos + 1 - Len(a)) |-> g]

\* heap_update(a, pos, len) with the heap of the container; hbad records
\* that an element outside the array was accessed, and hlast.op is "update"
\* when the call returned.
HeapUpdateAt(pos, g) ==
    /\ hfuel > 0 /\ ~hbad
    /\ \E hp \in {heap_update([a |-> heap_extended(harr, pos, g),
                               idx |-> hidx], pos, Len(harr))} :
           /\ harr' = SubSeq(hp.a, 1, Len(harr))
           /\ hidx' = hp.idx
    /\ hbad' = \E i \in heap_update_reads(pos) : i >= Len(harr)
    /\ hlast' = [op |-> "update", d |-> g.ref, pos |-> pos,
                 up |-> heap_update_up([a |-> heap_extended(harr, pos, g),
                                        idx |-> hidx], pos),
                 len0 |-> Len(harr)]
    /\ hfuel' = hfuel - 1
    /\ UNCHANGED hrec

HeapOobNext ==
    \/ HeapNext
    \/ \E pos \in 0..(Len(harr) + 1) :
           \E g \in (IF pos >= Len(harr) THEN HeapGarbage
                     ELSE {[val |-> 0, ref |-> 0]}) :
               HeapUpdateAt(pos, g) /\ UNCHANGED <<hvars, tvars, qvars, lvars>>

SpecHeapOob == HeapInit /\ [][HeapOobNext]_vars

\* C17: a call of heap_update with a position out of range (pos >= len)
\* fails loudly instead of returning, and no array element and no
\* back-reference is read or written by it.
C17_OutOfRangeFailsLoudly ==
    /\ ~hbad
    /\ hlast.op = "update" => hlast.pos < hlast.len0

(***************************************************************************)
(* Enumeration: h_foreach and hm_foreach.  The callback f receives the     *)
(* node and the caller's arg; the callers' visitor records in arg the      *)
(* entries it is called with and signals stop (returns false) at its       *)
(* stop-th call, never if stop is 0.  A call yields [arg, ret].            *)
(***************************************************************************)
NewArg(stop) == [seen |-> <<>>, stop |-> stop, done |-> FALSE, late |-> 0]

\* f(node, arg) of the visitor: done tells that it has signalled stop, late
\* counts the calls made after that.
Visit(node, arg) ==
    [arg |-> [seen |-> Append(arg.seen, node.id),
              stop |-> arg.stop,
              done |-> arg.done \/ Len(arg.seen) + 1 = arg.stop,
              late |-> IF arg.done THEN arg.late + 1 ELSE arg.late],
     ret |-> Len(arg.seen) + 1 # arg.stop]

RECURSIVE h_foreach_chain(_, _, _)

\* A faulty test that goes on with the chain whatever f returned.
h_foreach_node_on(chain, i, r) == h_foreach_chain(chain, i + 1, r.arg)

\* if (!f(node, arg)) return false; else node = node->next.
h_foreach_node(chain, i, r) ==
    IF ~r.ret THEN r ELSE h_foreach_chain(chain, i + 1, r.arg)

\* The inner loop of h_foreach over one chain, from its i-th entry.
h_foreach_chain(chain, i, arg) ==
    IF i > Len(chain) THEN [arg |-> arg, ret |-> TRUE]
    ELSE h_foreach_node(chain, i, Visit(chain[i], arg))

\* The outer loop of h_foreach over the buckets lo..hi, entered with the
\* result r of the buckets before them (split in halves to keep the
\* evaluation shallow); a false result has returned from h_foreach.
RECURSIVE h_foreach_buckets(_, _, _, _)
h_foreach_buckets(htab, lo, hi, r) ==
    IF ~r.ret \/ lo > hi THEN r
    ELSE IF lo = hi THEN h_foreach_chain(htab.tab[lo + 1], 1, r.arg)
    ELSE h_foreach_buckets(htab, (lo + hi) \div 2 + 1, hi,
             h_foreach_buckets(htab, lo, (lo + hi) \div 2, r))

\* h_foreach: no bucket is entered when mask is 0.
h_foreach(htab, arg) ==
    IF htab.mask # 0
    THEN h_foreach_buckets(htab, 0, htab.mask, [arg |-> arg, ret |-> TRUE])
    ELSE [arg |-> arg, ret |-> TRUE]

\* The right operand of && in hm_foreach, given the result r of the left.
hm_foreach_older(hm, r) ==
    IF r.ret THEN h_foreach(hm.older, r.arg) ELSE r

\* A faulty hm_foreach that helps the rehash before it enumerates.
hm_foreach_helping(hm, arg) ==
    [hmap |-> hm_help_rehashing(hm),
     arg |-> hm_foreach_older(hm_help_rehashing(hm),
                 h_foreach(hm_help_rehashing(hm).newer, arg)).arg,
     ret |-> <<>>]

\* hm_foreach: h_foreach(newer) && h_foreach(older); the value of the
\* expression is dropped and the function, being void, returns none (<<>>).
hm_foreach(hm, arg) ==
    [hmap |-> hm,
     arg |-> hm_foreach_older(hm, h_foreach(hm.newer, arg)).arg,
     ret |-> <<>>]

\* The calls at which the callers' visitors signal stop.
Stops(hm) == {0, 1, 2, hm.newer.size, hm.newer.size + 1, hm_size(hm)}

HmForeach(stop) ==
    /\ ~aborted
    /\ \E r \in {hm_foreach(hmap, NewArg(stop))} :
           /\ hmap' = r.hmap
           /\ last' = [op |-> "foreach", stop |-> stop, seen |-> r.arg.seen,
                       done |-> r.arg.done, late |-> r.arg.late,
                       ret |-> r.ret,
                       mid0 |-> hmap.older.tab # NullTab]
    /\ ops' = ops + 1
    /\ UNCHANGED <<loaded, live, rh, nextId, aborted>>

EachNext ==
    \/ Next
    \/ \E stop \in Stops(hmap) :
           ops < MaxOps /\ HmForeach(stop) /\ UNCHANGED <<tvars, pvars, qvars, lvars>>

SpecForeach == Init /\ [][EachNext]_vars

\* C18: when the visitor never signals stop, hm_foreach calls it exactly
\* once for every live entry, those of the older table during a rehash
\* included, and leaves the map as it was (no migration step, no entry
\* moved).
C18_ForeachVisitsAll ==
    [][(last'.op = "foreach" /\ last'.stop = 0 /\ ops' = ops + 1) =>
           /\ hmap' = hmap
           /\ Len(last'.seen) = Cardinality(Live)
           /\ {last'.seen[i] : i \in 1..Len(last'.seen)}
                  = {e.id : e \in Live}]_vars

\* A complete enumeration during a rehash, with entries in both tables.
C18_Witness ==
    /\ last.op = "foreach" /\ last.stop = 0 /\ last.mid0
    /\ hmap.older.size > 0 /\ hmap.newer.size > 0
    /\ Len(last.seen) = hm_size(hmap)
    /\ \E e \in TabEntries(hmap.older) :
           \E i \in 1..Len(last.seen) : last.seen[i] = e.id

\* C19: foreach reports to its caller whether the enumeration ran to
\* completion: it returns true when every entry was visited and false when
\* the visitor signalled stop.
C19_ForeachReports ==
    last.op = "foreach" => last.ret = <<~last.done>>

\* C20: once the visitor has signalled stop during hm_foreach no further
\* entry is visited: not the rest of the chain, not the later buckets, not
\* the older table when the stop happened in the newer one.
C20_StopHalts ==
    last.op = "foreach" =>
        /\ last.late = 0
        /\ last.done => Len(last.seen) = last.stop

\* A stop in the newer table during a rehash, at an entry that is neither
\* the last of its chain nor in the last bucket, with entries in the older
\* table.
C20_Witness ==
    /\ last.op = "foreach" /\ last.done
    /\ last.stop < hmap.newer.size
    /\ hmap.older.size > 0
    /\ \E b \in 1..(Len(hmap.newer.tab) - 1) :
           \E i \in 1..(Len(hmap.newer.tab[b]) - 1) :
               hmap.newer.tab[b][i].id = last.seen[Len(last.seen)]

\* C21: insertion is most-recent-first: from the return of hm_insert(e)
\* until e is deleted or a newer entry with an equal key is inserted, a
\* lookup with a key equal to e's returns e itself, even when another live
\* entry with the same hash code and an equal key was inserted earlier.
\* (Entries are numbered in the order of their insertion.)
C21_MostRecentFirst ==
    LET entries == Live
    IN  \A k \in Keys :
            \A e \in entries :
                Matches(e, k) => e.id <= hm_lookup(hmap, k, "KeyEq").ret.id

\* The chain without the entry e.
Without(chain, e) == SelectSeq(chain, LAMBDA x : x # e)

\* Whether s is what is left of t after taking entries off its head.
IsSuffix(s, t) ==
    Len(s) <= Len(t) /\ s = SubSeq(t, Len(t) - Len(s) + 1, Len(t))

\* The number of entries a call moved into the newer table: all of it in a
\* call that triggered the rehash (the table is new), else those that were
\* in the older table before.
Migrated(h, h2, trig) ==
    IF trig THEN h2.newer.size
    ELSE Cardinality(TabEntries(h.older) \cap TabEntries(h2.newer))

\* The entry a call unlinked for its caller, if any.
Unlinked(call) == IF call.op = "delete" THEN call.ret ELSE NullNode

\* C22: a single call of hm_lookup, hm_insert or hm_delete moves at most
\* 128 entries from the older to the newer table, each move taking the head
\* of the chain at the migration cursor: while the rehash goes on, what is
\* left of every older chain is a tail of it, the chains before the cursor
\* are empty and those after it are untouched.
C22_MigrationQuota ==
    [][(ops' = ops + 1 /\ ~aborted') =>
           /\ Migrated(hmap, hmap', last'.trig) <= k_rehashing_work
           /\ (hmap.older.tab # NullTab /\ hmap'.older.tab # NullTab) =>
                  /\ hmap'.migrate_pos >= hmap.migrate_pos
                  /\ \A b \in 1..Len(hmap.older.tab) :
                         /\ IsSuffix(hmap'.older.tab[b],
                                     Without(hmap.older.tab[b],
                                             Unlinked(last')))
                         /\ b - 1 < hmap'.migrate_pos
                                => hmap'.older.tab[b] = <<>>
                         /\ b - 1 > hmap'.migrate_pos
                                => hmap'.older.tab[b] =
                                       Without(hmap.older.tab[b],
                                               Unlinked(last'))]_vars

\* After the second call of a rehash of 512 entries 256 have moved and more
\* than 128 are still in the older table.
C22_Witness ==
    /\ rh.calls = 2
    /\ hmap.newer.size >= 2 * k_rehashing_work
    /\ hmap.newer.size <= 2 * k_rehashing_work + 1
    /\ hmap.older.size > k_rehashing_work

\* Whether an allocated table has a power-of-two capacity, mask equal to
\* capacity - 1, and every entry in the bucket (hcode AND mask).
TableShape(htab) ==
    htab.tab # NullTab =>
        /\ h_init_assert(Len(htab.tab))
        /\ htab.mask = Len(htab.tab) - 1
        /\ \A b \in 1..Len(htab.tab) :
               \A i \in 1..Len(htab.tab[b]) :
                   BitAnd(htab.tab[b][i].hcode, htab.mask) = b - 1

\* C23: in every reachable state each allocated table has a capacity that
\* is a power of two with mask = capacity - 1, so the assertion of h_init
\* never fails, and every linked entry sits in the bucket with index
\* (hcode AND mask) of its table.
C23_PowerOfTwo ==
    /\ ~aborted
    /\ TableShape(hmap.newer)
    /\ TableShape(hmap.older)

\* A rehash under way between a table of 64 buckets or more and one of
\* twice its capacity, both holding entries.
C23_Witness ==
    /\ hmap.older.size > 0 /\ hmap.newer.size > 0
    /\ Len(hmap.older.tab) >= 64
    /\ Len(hmap.newer.tab) = 2 * Len(hmap.older.tab)

(***************************************************************************)
(* The sorted set (zset.h).  A ZSet is [root, hmap, t, val]: the AVL tree  *)
(* t of the ZNode.tree fields with its root, the hash map of the           *)
(* ZNode.hmap fields, and val[n] = [score, name] of the member in slot n.  *)
(* The hash entry of member n is [id |-> n, hcode, key |-> name]; names    *)
(* are sequences of bytes.                                                 *)
(***************************************************************************)
MaxZOps == 3
MaxZScore == 2

NumZSlots == LoadSmall + MaxZOps
ZSlots == 1..NumZSlots
ZScores == 0..MaxZScore

\* The names the callers use: the empty name, a name, a name that extends
\* it, and a name whose hash code equals that of the third.
ZNames == {<<>>, <<1>>, <<1, 1>>, <<2>>}

ZFree == [score |-> 0, name |-> <<>>]
EmptyZSet ==
    [root |-> 0, hmap |-> EmptyHMap, t |-> [n \in ZSlots |-> FreeNode],
     val |-> [n \in ZSlots |-> ZFree]]

\* The hash code of a name (names of equal byte sum collide).
RECURSIVE ZHash(_)
ZHash(name) == IF name = <<>> THEN 0 ELSE Head(name) + ZHash(Tail(name))

\* The key a caller builds to look a name up.
ZKey(name) == [id |-> 0, hcode |-> ZHash(name), key |-> name]

\* memcmp over the first n bytes, then the lengths: whether a < b.
RECURSIVE NameLessFrom(_, _, _)
NameLessFrom(a, b, i) ==
    IF i > Len(a) \/ i > Len(b) THEN Len(a) < Len(b)
    ELSE IF a[i] # b[i] THEN a[i] < b[i]
    ELSE NameLessFrom(a, b, i + 1)

NameLess(a, b) == NameLessFrom(a, b, 1)

\* A faulty comparison that orders by score alone.
zless_score(v, score, name) == v.score < score

\* zless: (score, name) of a member against a (score, name) tuple.
zless(v, score, name) ==
    IF v.score # score THEN v.score < score ELSE NameLess(v.name, name)

\* The descent of tree_insert: the node the new one hangs under, and the
\* side (left when the new member is less).
RECURSIVE tree_search(_, _, _)
tree_search(z, cur, n) ==
    IF zless(z.val[n], z.val[cur].score, z.val[cur].name)
    THEN IF z.t[cur].left = 0 THEN [cur |-> cur, isLeft |-> TRUE]
         ELSE tree_search(z, z.t[cur].left, n)
    ELSE IF z.t[cur].right = 0 THEN [cur |-> cur, isLeft |-> FALSE]
         ELSE tree_search(z, z.t[cur].right, n)

\* The set with the tree and the root an AVL operation returned.
ZWith(z, r) == [z EXCEPT !.t = r.t, !.root = r.ret]

\* tree_insert: hang member n (initialised) into the tree, then avl_fix.
tree_insert(z, n) ==
    IF z.root = 0 THEN ZWith(z, avl_fix(z.t, n))
    ELSE ZWith(z, avl_fix(add_attach(z.t, tree_search(z, z.root, n), n), n))

\* zset_lookup: the hash lookup by name; ret is the member, 0 for none.
zset_lookup_ret(z, r) == [z |-> [z EXCEPT !.hmap = r.hmap], ret |-> r.ret.id]
zset_lookup(z, name) ==
    zset_lookup_ret(z, hm_lookup(z.hmap, ZKey(name), "KeyEq"))

\* The member n taken out of the tree (r is what avl_del returned), with
\* its tree node initialised anew and the new score.
zset_detached(z, r, n, score) ==
    [z EXCEPT !.t = [r.t EXCEPT ![n] = avl_init], !.root = r.ret,
              !.val[n].score = score]

\* A faulty update that stores the score and leaves the member where it
\* was in the tree.
zset_update_inplace(z, n, score) == [z EXCEPT !.val[n].score = score]

\* The score change of an existing member: nothing for an equal score, else
\* detach from the tree, store the score, insert into the tree again.
zset_update(z, n, score) ==
    IF z.val[n].score = score THEN z
    ELSE tree_insert(zset_detached(z, avl_del(z.t, n), n, score), n)

\* A new member in slot n: allocate, hm_insert, tree_insert.
zset_new(z, n, name, score) ==
    tree_insert([z EXCEPT !.t[n] = avl_init,
                          !.val[n] = [score |-> score, name |-> name],
                          !.hmap = hm_insert(z.hmap,
                                             [id |-> n,
                                              hcode |-> ZHash(name),
                                              key |-> name])], n)

\* A faulty insert that reports an update of the score as a new member.
zset_insert_found_changed(l, n, name, score) ==
    IF l.ret # 0
    THEN [z |-> zset_update(l.z, l.ret, score),
          ret |-> l.z.val[l.ret].score # score]
    ELSE [z |-> zset_new(l.z, n, name, score), ret |-> TRUE]

\* zset_insert after its lookup l; n is the slot a new member would take.
zset_insert_found(l, n, name, score) ==
    IF l.ret # 0
    THEN [z |-> zset_update(l.z, l.ret, score), ret |-> FALSE]
    ELSE [z |-> zset_new(l.z, n, name, score), ret |-> TRUE]

zset_insert(z, n, name, score) ==
    zset_insert_found(zset_lookup(z, name), n, name, score)

\* zset_delete of member n: hm_delete by its name (found tells whether the
\* entry was there), avl_del, release.
zset_delete_found(z, r, d, n) ==
    [z |-> [z EXCEPT !.hmap = r.hmap,
                     !.t = [d.t EXCEPT ![n] = FreeNode],
                     !.root = d.ret,
                     !.val[n] = ZFree],
     found |-> r.ret # NullNode]

zset_delete(z, n) ==
    zset_delete_found(z, hm_delete(z.hmap, ZKey(z.val[n].name), "KeyEq"),
                      avl_del(z.t, n), n)

\* A faulty hm_clear that leaves the map as it is.
hm_clear_keep(h) == h

\* hm_clear: both bucket arrays freed, the map reset.
hm_clear(h) == EmptyHMap

\* zset_clear: every member released, the map cleared, no root.
zset_clear(z) ==
    [root |-> 0, hmap |-> hm_clear(z.hmap),
     t |-> [n \in ZSlots |-> FreeNode], val |-> [n \in ZSlots |-> ZFree]]

\* The descent of zset_seekge from node, found being the best candidate.
RECURSIVE zset_seekge_from(_, _, _, _, _)
zset_seekge_from(z, node, found, score, name) ==
    IF node = 0 THEN found
    ELSE IF zless(z.val[node], score, name)
    THEN zset_seekge_from(z, z.t[node].right, found, score, name)
    ELSE zset_seekge_from(z, z.t[node].left, node, score, name)

zset_seekge(z, score, name) == zset_seekge_from(z, z.root, 0, score, name)

\* znode_offset: avl_offset from the member's tree node, null for null.
znode_offset(z, n, offset) ==
    IF n = 0 THEN 0 ELSE avl_offset(z.t, n, offset)

\* The sorted set of the state.
Z == [root |-> root, hmap |-> hmap, t |-> tree, val |-> val]

\* The member a bulk load inserts k-th: the one-byte name k, with a score
\* that repeats every MaxZScore + 1 members.
ZLoadName(k) == <<k>>
ZLoadScore(k) == k % (MaxZScore + 1)

\* The set after zset_insert of the first k members of the bulk load.
RECURSIVE ZLoaded(_)
ZLoaded(k) ==
    IF k = 0 THEN EmptyZSet
    ELSE LET z == ZLoaded(k - 1)
         IN  IF z.root >= 0
             THEN zset_insert(z, k, ZLoadName(k), ZLoadScore(k)).z
             ELSE z

\* The members callers hold a pointer to and may delete.
ZHeld == {n \in ZSlots : tree[n].height # 0 /\ val[n].name \in ZNames}

\* The ghost record of a call: was tells whether the name was a member
\* before the call and score0 its score then, size0 is hm_size before it.
ZCall(op, name, score, ret) ==
    [op |-> op, name |-> name, score |-> score, ret |-> ret,
     was |-> \E m \in live : m.name = name,
     score0 |-> IF \E m \in live : m.name = name
                THEN (CHOOSE m \in live : m.name = name).score ELSE -1,
     size0 |-> hm_size(hmap)]

ZSet(z) ==
    /\ root' = z.root
    /\ hmap' = z.hmap
    /\ tree' = z.t
    /\ val' = z.val

ZInitFrom(k) ==
    /\ \E z \in {ZLoaded(k)} :
           /\ root = z.root /\ hmap = z.hmap /\ tree = z.t /\ val = z.val
    /\ live = {[name |-> ZLoadName(i), score |-> ZLoadScore(i)] : i \in 1..k}
    /\ last = [op |-> "none", name |-> <<>>, score |-> 0, ret |-> 0,
               was |-> FALSE, score0 |-> -1, size0 |-> 0]
    /\ loaded = {} /\ rh = [n |-> 0, calls |-> 0] /\ nextId = 1
    /\ ops = 0 /\ aborted = FALSE
    /\ tlast = "none" /\ tref = {} /\ tfuel = 0

\* zset_insert(&zset, name, len, score); a new member takes the lowest free
\* slot.  The assertions of hm_insert are those of HmInsert.
ZInsert(name, score) ==
    /\ ops < MaxZOps /\ ~aborted
    /\ \E n \in ZSlots :
           /\ tree[n].height = 0
           /\ \A y \in ZSlots : tree[y].height = 0 => n <= y
           /\ \E l \in {zset_lookup(Z, name)} :
                  IF l.ret = 0
                     /\ ~hm_insert_asserts(l.z.hmap,
                                           [id |-> n, hcode |-> ZHash(name),
                                            key |-> name])
                  THEN /\ aborted' = TRUE
                       /\ UNCHANGED <<root, hmap, tree, val, live, last>>
                  ELSE /\ \E r \in {zset_insert_found(l, n, name, score)} :
                              /\ ZSet(r.z)
                              /\ last' = ZCall("insert", name, score, r.ret)
                       /\ live' = {m \in live : m.name # name}
                                      \cup {[name |-> name, score |-> score]}
                       /\ aborted' = FALSE
    /\ ops' = ops + 1
    /\ UNCHANGED <<loaded, rh, nextId, tlast, tref, tfuel>>

\* zset_lookup(&zset, name, len).
ZLookup(name) ==
    /\ ops < MaxZOps /\ ~aborted
    /\ \E l \in {zset_lookup(Z, name)} :
           /\ ZSet(l.z)
           /\ last' = ZCall("lookup", name, 0, l.ret)
    /\ ops' = ops + 1
    /\ UNCHANGED <<live, loaded, rh, nextId, aborted, tlast, tref, tfuel>>

\* zset_delete(&zset, node) for a member n the caller holds; assert(found).
ZDelete(n) ==
    /\ ops < MaxZOps /\ ~aborted
    /\ n \in ZHeld
    /\ \E r \in {zset_delete(Z, n)} :
           IF r.found
           THEN /\ ZSet(r.z)
                /\ last' = ZCall("delete", val[n].name, val[n].score, n)
                /\ live' = {m \in live : m.name # val[n].name}
                /\ aborted' = FALSE
           ELSE /\ aborted' = TRUE
                /\ UNCHANGED <<root, hmap, tree, val, live, last>>
    /\ ops' = ops + 1
    /\ UNCHANGED <<loaded, rh, nextId, tlast, tref, tfuel>>

\* zset_clear(&zset).
ZClear ==
    /\ ops < MaxZOps /\ ~aborted
    /\ ZSet(zset_clear(Z))
    /\ last' = ZCall("clear", <<>>, 0, 0)
    /\ live' = {}
    /\ ops' = ops + 1
    /\ UNCHANGED <<loaded, rh, nextId, aborted, tlast, tref, tfuel>>

ZInit ==
    /\ \E k \in {0, LoadSmall} : ZInitFrom(k)
    /\ NoHeap
    /\ NoPool
    /\ NoList

ZNext ==
    \/ \E name \in ZNames : \E score \in ZScores :
           ZInsert(name, score) /\ UNCHANGED <<pvars, qvars, lvars>>
    \/ \E name \in ZNames : ZLookup(name) /\ UNCHANGED <<pvars, qvars, lvars>>
    \/ \E n \in ZSlots : ZDelete(n) /\ UNCHANGED <<pvars, qvars, lvars>>
    \/ ZClear /\ UNCHANGED <<pvars, qvars, lvars>>

SpecZSet == ZInit /\ [][ZNext]_vars

\* The members linked in the hash index, and the member records.
ZIndexed == {e.id : e \in Entries(hmap)}
ZMember(n) == [name |-> val[n].name, score |-> val[n].score]

\* C24: in every state reachable through sorted-set insert, delete and
\* clear a member is in the ordering tree if and only if it is in the name
\* hash index, both views refer to the same member record, and the tree's
\* root count equals hm_size.
C24_TreeIffIndex ==
    /\ ~aborted
    /\ TreeNodes = ZIndexed
    /\ \A e \in Entries(hmap) :
           /\ tree[e.id].height # 0
           /\ e.key = val[e.id].name
           /\ e.hcode = ZHash(val[e.id].name)
    /\ avl_cnt(tree, root) = hm_size(hmap)

\* A delete from a set that had grown past the bulk load before.
C24_Witness ==
    /\ last.op = "delete"
    /\ hm_size(hmap) >= LoadSmall
    /\ root # 0

\* C25: sorted-set insert returns true exactly when no member with that
\* name existed before the call, and false when the name existed, whether
\* or not the score differs; the member count grows in the first case only.
C25_InsertWasNew ==
    last.op = "insert" =>
        /\ last.ret = ~last.was
        /\ hm_size(hmap) = last.size0 + (IF last.was THEN 0 ELSE 1)
        /\ avl_cnt(tree, root) = hm_size(hmap)

\* An insert of an existing name with another score.
C25_Witness ==
    /\ last.op = "insert" /\ last.was /\ ~last.ret
    /\ last.score # last.score0
    /\ hm_size(hmap) >= LoadSmall

\* The names looked up: those the callers insert, one only the bulk load
\* has, and one nobody has.
ZAsked == ZNames \cup {<<LoadSmall>>, <<LoadSmall + 1>>}

\* C26: after any sequence of sorted-set inserts and deletes lookup(name)
\* returns a member exactly when the name was inserted and not deleted
\* since, and that member has the name and the score of the most recent
\* insert of that name.
C26_LookupCurrent ==
    \A name \in ZAsked :
        /\ zset_lookup(Z, name).ret # 0 <=> \E m \in live : m.name = name
        /\ zset_lookup(Z, name).ret # 0 =>
               /\ ZMember(zset_lookup(Z, name).ret).name = name
               /\ ZMember(zset_lookup(Z, name).ret) \in live

\* After a delete, with a member whose score an insert has changed.
C26_Witness ==
    /\ last.op = "delete"
    /\ zset_lookup(Z, last.name).ret = 0
    /\ \E m \in live :
           /\ m.name \in ZNames /\ Len(m.name) = 1
           /\ m.score # ZLoadScore(m.name[1])
           /\ zset_lookup(Z, m.name).ret # 0

\* The tuples asked for: every score of a member and one below and one
\* above them, with every name looked up and one between the callers' names.
ZQueryScores == (-1)..(MaxZScore + 1)
ZQueryNames == ZAsked \cup {<<1, 0>>}

\* (score, name) of member m is >= the tuple: a larger score, or the same
\* score and a name that is not byte-wise smaller.
ZAtLeast(m, score, name) ==
    m.score > score \/ (m.score = score /\ ~NameLess(m.name, name))

\* Member a comes strictly before member b in the (score, name) order.
ZBefore(a, b) ==
    a.score < b.score \/ (a.score = b.score /\ NameLess(a.name, b.name))

\* The members of the tree.
ZMembers == {ZMember(n) : n \in TreeNodes}

\* C27: seek_ge(score, name) returns the member that is smallest under the
\* (score, then byte-wise name) order among all members whose (score, name)
\* is >= the query tuple, and null when no member qualifies.
C27_SeekGe ==
    LET members == ZMembers
    IN  \A score \in ZQueryScores : \A name \in ZQueryNames :
            IF zset_seekge(Z, score, name) = 0
            THEN \A m \in members : ~ZAtLeast(m, score, name)
            ELSE /\ zset_seekge(Z, score, name) \in TreeNodes
                 /\ ZAtLeast(ZMember(zset_seekge(Z, score, name)),
                             score, name)
                 /\ \A m \in members :
                        ZAtLeast(m, score, name) =>
                            ~ZBefore(m, ZMember(zset_seekge(Z, score, name)))

\* A set of more than 30 members after a score update, where a seek at a
\* member's own tuple finds it, a seek between two names of one score is
\* decided by the name, and a seek above all scores finds nothing.
C27_Witness ==
    /\ last.op = "insert" /\ last.was /\ last.score # last.score0
    /\ hm_size(hmap) >= LoadSmall
    /\ ZMember(zset_seekge(Z, last.score, last.name)).name = last.name
    /\ zset_seekge(Z, 1, <<1, 0>>) # 0
    /\ ZMember(zset_seekge(Z, 1, <<1, 0>>)).score = 1
    /\ zset_seekge(Z, MaxZScore + 1, <<>>) = 0

\* The members met from member n by successive znode_offset(+1) steps, n
\* included, until null (at most fuel of them).
RECURSIVE ZWalk(_, _)
ZWalk(n, fuel) ==
    IF n <= 0 \/ fuel = 0 THEN <<>>
    ELSE <<n>> \o ZWalk(znode_offset(Z, n, 1), fuel - 1)

\* Whether the walk w lists, in ascending (score, name) order and each
\* once, the members recorded in the reference set that are >= the tuple.
ZWalkIsRange(w, score, name) ==
    /\ Len(w) = Cardinality({m \in live : ZAtLeast(m, score, name)})
    /\ \A i \in 1..Len(w) :
           /\ ZMember(w[i]) \in live
           /\ ZAtLeast(ZMember(w[i]), score, name)
    /\ \A i \in 1..(Len(w) - 1) : ZBefore(ZMember(w[i]), ZMember(w[i + 1]))

\* C28: rank order follows the current scores: after an existing member's
\* score is updated by insert, walking from a seek_ge point with successive
\* offset(+1) steps visits the members in ascending (score, name) order
\* using the updated score, each member once, and ends with null.
C28_WalkFollowsScores ==
    \A score \in ZQueryScores : \A name \in {<<>>, <<1, 0>>} :
        ZWalkIsRange(ZWalk(zset_seekge(Z, score, name), NumZSlots + 1),
                     score, name)

\* After a score update of a bulk-loaded member that moved it to another
\* place of a walk over more than 30 members.
C28_Witness ==
    /\ last.op = "insert" /\ last.was /\ last.score # last.score0
    /\ hm_size(hmap) >= LoadSmall
    /\ Len(ZWalk(zset_seekge(Z, 0, <<>>), NumZSlots + 1)) = hm_size(hmap)
    /\ \E i \in 2..(hm_size(hmap) - 1) :
           ZMember(ZWalk(zset_seekge(Z, 0, <<>>), NumZSlots + 1)[i])
               = [name |-> last.name, score |-> last.score]

(***************************************************************************)
(* The thread pool (thread_pool.cpp).  Threads are numbered: the workers   *)
(* created by thread_pool_init, then the producers that call               *)
(* thread_pool_queue.  A Work is [id, never]: the task and whether its     *)
(* body never returns.  Every pthread call is one step.                    *)
(***************************************************************************)
NumWorkers == 2
NumProducers == 2
MaxTasks == 3

Workers == 1..NumWorkers
Producers == (NumWorkers + 1)..(NumWorkers + NumProducers)
NoWork == [id |-> 0, never |-> FALSE]

\* assert(num_threads > 0) of thread_pool_init.
thread_pool_init_assert(num_threads) == num_threads > 0

\* A faulty dequeue that takes the task queued last.
queue_take_back(q) ==
    [w |-> q[Len(q)], queue |-> SubSeq(q, 1, Len(q) - 1)]

\* A faulty dequeue that reads the front task and leaves it in the queue.
queue_take_kept(q) == [w |-> Head(q), queue |-> q]

\* Work w = queue.front(); queue.pop_front().
queue_take(q) == [w |-> Head(q), queue |-> Tail(q)]

\* A faulty worker that keeps the mutex while it runs the task.
worker_unlock_late(m, w) == m

\* pthread_mutex_unlock(&tp->mu) of the worker before it runs the task.
worker_unlock(m, w) == 0

\* thread_pool_init: mutex and condition variable initialised, the queue
\* empty, every worker thread at the top of its loop.
PoolInit ==
    /\ thread_pool_init_assert(NumWorkers)
    /\ mu = 0 /\ queue = <<>> /\ waiting = {}
    /\ wpc = [w \in Workers |-> "lock"]
    /\ wtask = [w \in Workers |-> NoWork]
    /\ ppc = [p \in Producers |-> "idle"]
    /\ ptask = [p \in Producers |-> NoWork]
    /\ tnext = 1
    /\ appended = <<>> /\ removed = <<>> /\ ran = <<>> /\ busyq = FALSE
    /\ idleq = FALSE

\* worker: pthread_mutex_lock(&tp->mu).
WLock(w) ==
    /\ wpc[w] = "lock" /\ mu = 0
    /\ mu' = w
    /\ wpc' = [wpc EXCEPT ![w] = "check"]
    /\ UNCHANGED <<queue, waiting, wtask, ppc, ptask, tnext, appended,
                   removed, ran, busyq, idleq>>

\* worker: the queue is empty, pthread_cond_wait releases the mutex and
\* blocks.
WWait(w) ==
    /\ wpc[w] = "check" /\ queue = <<>>
    /\ mu' = 0
    /\ waiting' = waiting \cup {w}
    /\ wpc' = [wpc EXCEPT ![w] = "wait"]
    /\ UNCHANGED <<queue, wtask, ppc, ptask, tnext, appended, removed, ran,
                   busyq, idleq>>

\* A spurious wakeup of a worker blocked in pthread_cond_wait.
WSpurious(w) ==
    /\ wpc[w] = "wait" /\ w \in waiting
    /\ waiting' = waiting \ {w}
    /\ UNCHANGED <<mu, queue, wpc, wtask, ppc, ptask, tnext, appended,
                   removed, ran, busyq, idleq>>

\* worker: pthread_cond_wait returns, with the mutex acquired again; the
\* loop tests the queue again.
WWake(w) ==
    /\ wpc[w] = "wait" /\ w \notin waiting /\ mu = 0
    /\ mu' = w
    /\ wpc' = [wpc EXCEPT ![w] = "check"]
    /\ UNCHANGED <<queue, waiting, wtask, ppc, ptask, tnext, appended,
                   removed, ran, busyq, idleq>>

\* worker: the queue is not empty, Work w = front(); pop_front().
WPop(w) ==
    /\ wpc[w] = "check" /\ queue # <<>>
    /\ \E r \in {queue_take(queue)} :
           /\ wtask' = [wtask EXCEPT ![w] = r.w]
           /\ queue' = r.queue
           /\ removed' = Append(removed, r.w.id)
    /\ wpc' = [wpc EXCEPT ![w] = "unlock"]
    /\ UNCHANGED <<mu, waiting, ppc, ptask, tnext, appended, ran, busyq,
                   idleq>>

\* worker: pthread_mutex_unlock(&tp->mu).
WUnlock(w) ==
    /\ wpc[w] = "unlock"
    /\ mu' = worker_unlock(mu, w)
    /\ wpc' = [wpc EXCEPT ![w] = "call"]
    /\ UNCHANGED <<queue, waiting, wtask, ppc, ptask, tnext, appended,
                   removed, ran, busyq, idleq>>

\* worker: w.f(w.arg) is called.
WCall(w) ==
    /\ wpc[w] = "call"
    /\ ran' = Append(ran, [task |-> wtask[w].id, worker |-> w])
    /\ wpc' = [wpc EXCEPT ![w] = "run"]
    /\ UNCHANGED <<mu, queue, waiting, wtask, ppc, ptask, tnext, appended,
                   removed, busyq, idleq>>

\* worker: w.f(w.arg) returns (a task that never returns does not); back
\* to the top of the loop.
WReturn(w) ==
    /\ wpc[w] = "run" /\ ~wtask[w].never
    /\ wpc' = [wpc EXCEPT ![w] = "lock"]
    /\ UNCHANGED <<mu, queue, waiting, wtask, ppc, ptask, tnext, appended,
                   removed, ran, busyq, idleq>>

\* A producer calls thread_pool_queue(tp, f, arg) with a new task.
PCall(p, never) ==
    /\ ppc[p] = "idle" /\ tnext <= MaxTasks
    /\ ptask' = [ptask EXCEPT ![p] = [id |-> tnext, never |-> never]]
    /\ tnext' = tnext + 1
    /\ ppc' = [ppc EXCEPT ![p] = "lock"]
    /\ UNCHANGED <<mu, queue, waiting, wpc, wtask, appended, removed, ran,
                   busyq, idleq>>

\* A faulty thread_pool_queue that goes on without the mutex.
PLockSkipped(p) ==
    /\ ppc[p] = "lock"
    /\ ppc' = [ppc EXCEPT ![p] = "push"]
    /\ UNCHANGED <<mu, queue, waiting, wpc, wtask, ptask, tnext, appended,
                   removed, ran, busyq, idleq>>

\* thread_pool_queue: pthread_mutex_lock(&tp->mu).
PLock(p) ==
    /\ ppc[p] = "lock" /\ mu = 0
    /\ mu' = p
    /\ ppc' = [ppc EXCEPT ![p] = "push"]
    /\ UNCHANGED <<queue, waiting, wpc, wtask, ptask, tnext, appended,
                   removed, ran, busyq, idleq>>

\* thread_pool_queue: tp->queue.push_back(Work {f, arg}).
PPush(p) ==
    /\ ppc[p] = "push"
    /\ queue' = Append(queue, ptask[p])
    /\ appended' = Append(appended, ptask[p].id)
    /\ busyq' = (busyq \/ \A w \in Workers : wpc[w] = "run")
    /\ idleq' = (idleq \/ waiting # {})
    /\ ppc' = [ppc EXCEPT ![p] = "signal"]
    /\ UNCHANGED <<mu, waiting, wpc, wtask, ptask, tnext, removed, ran>>

\* A faulty thread_pool_queue whose signal wakes nobody.
PSignalLost(p) ==
    /\ ppc[p] = "signal"
    /\ ppc' = [ppc EXCEPT ![p] = "unlock"]
    /\ UNCHANGED <<mu, queue, waiting, wpc, wtask, ptask, tnext, appended,
                   removed, ran, busyq, idleq>>

\* thread_pool_queue: pthread_cond_signal(&tp->not_empty) unblocks at least
\* one of the workers blocked on it, if there is any.
PSignal(p) ==
    /\ ppc[p] = "signal"
    /\ \E S \in SUBSET waiting :
           /\ waiting # {} => S # {}
           /\ waiting' = waiting \ S
    /\ ppc' = [ppc EXCEPT ![p] = "unlock"]
    /\ UNCHANGED <<mu, queue, wpc, wtask, ptask, tnext, appended, removed,
                   ran, busyq, idleq>>

\* thread_pool_queue: pthread_mutex_unlock(&tp->mu), and return.
PUnlock(p) ==
    /\ ppc[p] = "unlock"
    /\ mu' = 0
    /\ ppc' = [ppc EXCEPT ![p] = "idle"]
    /\ UNCHANGED <<queue, waiting, wpc, wtask, ptask, tnext, appended,
                   removed, ran, busyq, idleq>>

PoolStart == PoolInit /\ NoMap /\ NoTree /\ NoHeap /\ NoList

PoolNext ==
    \/ \E w \in Workers : WLock(w) /\ UNCHANGED <<hvars, tvars, pvars, lvars>>
    \/ \E w \in Workers : WWait(w) /\ UNCHANGED <<hvars, tvars, pvars, lvars>>
    \/ \E w \in Workers : WSpurious(w) /\ UNCHANGED <<hvars, tvars, pvars, lvars>>
    \/ \E w \in Workers : WWake(w) /\ UNCHANGED <<hvars, tvars, pvars, lvars>>
    \/ \E w \in Workers : WPop(w) /\ UNCHANGED <<hvars, tvars, pvars, lvars>>
    \/ \E w \in Workers : WUnlock(w) /\ UNCHANGED <<hvars, tvars, pvars, lvars>>
    \/ \E w \in Workers : WCall(w) /\ UNCHANGED <<hvars, tvars, pvars, lvars>>
    \/ \E w \in Workers : WReturn(w) /\ UNCHANGED <<hvars, tvars, pvars, lvars>>
    \/ \E p \in Producers : \E never \in BOOLEAN :
           PCall(p, never) /\ UNCHANGED <<hvars, tvars, pvars, lvars>>
    \/ \E p \in Producers : PLock(p) /\ UNCHANGED <<hvars, tvars, pvars, lvars>>
    \/ \E p \in Producers : PPush(p) /\ UNCHANGED <<hvars, tvars, pvars, lvars>>
    \/ \E p \in Producers : PSignal(p) /\ UNCHANGED <<hvars, tvars, pvars, lvars>>
    \/ \E p \in Producers : PUnlock(p) /\ UNCHANGED <<hvars, tvars, pvars, lvars>>

SpecPool == PoolStart /\ [][PoolNext]_vars

\* C29: worker threads dequeue tasks in FIFO order: if the push_back of
\* task A was made before that of task B, then A is removed from the queue
\* before B, for any producers and workers; the tasks removed so far are
\* the first ones appended, in that order, and the queue holds the rest.
C29_Fifo ==
    /\ Len(removed) <= Len(appended)
    /\ removed = SubSeq(appended, 1, Len(removed))
    /\ [i \in 1..Len(queue) |-> queue[i].id]
           = SubSeq(appended, Len(removed) + 1, Len(appended))

\* Three tasks removed by two workers, appended by two producers in an
\* order that is not the order of their creation.
C29_Witness ==
    /\ Len(removed) = MaxTasks
    /\ \E i, j \in 1..Len(ran) : ran[i].worker # ran[j].worker
    /\ \E i \in 1..(Len(appended) - 1) : appended[i] > appended[i + 1]

\* C30: a worker never holds the queue mutex while it executes a task, so
\* thread_pool_queue can acquire the mutex and complete while every worker
\* is executing a task, even one that never returns: while all workers run
\* tasks the mutex is free or held by a producer, and a producer that
\* holds it can always go on.
C30_RunsUnlocked ==
    /\ \A w \in Workers : wpc[w] \in {"call", "run"} => mu # w
    /\ (\A w \in Workers : wpc[w] = "run") =>
           /\ mu \notin Workers
           /\ \A p \in Producers :
                  /\ ppc[p] = "lock" /\ mu = 0 => ENABLED PLock(p)
                  /\ ppc[p] \in {"push", "signal", "unlock"} => mu = p

\* Every worker runs a task that never returns, and a producer has queued
\* a task in the meantime and returned.
C30_Witness ==
    /\ \A w \in Workers : wpc[w] = "run" /\ wtask[w].never
    /\ busyq
    /\ queue # <<>>
    /\ mu = 0
    /\ \A p \in Producers : ppc[p] = "idle"

(***************************************************************************)
(* The thread pool with every task body terminating, under fair           *)
(* scheduling: a thread that can take a step takes one, and a thread that  *)
(* asks for the mutex again and again while it is released again and again *)
(* gets it.  A spurious wakeup may or may not happen, and a producer may   *)
(* or may not call thread_pool_queue.                                      *)
(***************************************************************************)
PoolFiniteNext ==
    \/ \E w \in Workers : WLock(w) /\ UNCHANGED <<hvars, tvars, pvars, lvars>>
    \/ \E w \in Workers : WWait(w) /\ UNCHANGED <<hvars, tvars, pvars, lvars>>
    \/ \E w \in Workers : WSpurious(w) /\ UNCHANGED <<hvars, tvars, pvars, lvars>>
    \/ \E w \in Workers : WWake(w) /\ UNCHANGED <<hvars, tvars, pvars, lvars>>
    \/ \E w \in Workers : WPop(w) /\ UNCHANGED <<hvars, tvars, pvars, lvars>>
    \/ \E w \in Workers : WUnlock(w) /\ UNCHANGED <<hvars, tvars, pvars, lvars>>
    \/ \E w \in Workers : WCall(w) /\ UNCHANGED <<hvars, tvars, pvars, lvars>>
    \/ \E w \in Workers : WReturn(w) /\ UNCHANGED <<hvars, tvars, pvars, lvars>>
    \/ \E p \in Producers :
           PCall(p, FALSE) /\ UNCHANGED <<hvars, tvars, pvars, lvars>>
    \/ \E p \in Producers : PLock(p) /\ UNCHANGED <<hvars, tvars, pvars, lvars>>
    \/ \E p \in Producers : PPush(p) /\ UNCHANGED <<hvars, tvars, pvars, lvars>>
    \/ \E p \in Producers : PSignal(p) /\ UNCHANGED <<hvars, tvars, pvars, lvars>>
    \/ \E p \in Producers : PUnlock(p) /\ UNCHANGED <<hvars, tvars, pvars, lvars>>

PoolFair ==
    /\ \A w \in Workers :
           /\ SF_vars(WLock(w) /\ UNCHANGED <<hvars, tvars, pvars, lvars>>)
           /\ SF_vars(WWake(w) /\ UNCHANGED <<hvars, tvars, pvars, lvars>>)
           /\ WF_vars(WWait(w) /\ UNCHANGED <<hvars, tvars, pvars, lvars>>)
           /\ WF_vars(WPop(w) /\ UNCHANGED <<hvars, tvars, pvars, lvars>>)
           /\ WF_vars(WUnlock(w) /\ UNCHANGED <<hvars, tvars, pvars, lvars>>)
           /\ WF_vars(WCall(w) /\ UNCHANGED <<hvars, tvars, pvars, lvars>>)
           /\ WF_vars(WReturn(w) /\ UNCHANGED <<hvars, tvars, pvars, lvars>>)
    /\ \A p \in Producers :
           /\ SF_vars(PLock(p) /\ UNCHANGED <<hvars, tvars, pvars, lvars>>)
           /\ WF_vars(PPush(p) /\ UNCHANGED <<hvars, tvars, pvars, lvars>>)
           /\ WF_vars(PSignal(p) /\ UNCHANGED <<hvars, tvars, pvars, lvars>>)
           /\ WF_vars(PUnlock(p) /\ UNCHANGED <<hvars, tvars, pvars, lvars>>)

SpecPoolFair == PoolStart /\ [][PoolFiniteNext]_vars /\ PoolFair

Tasks == 1..MaxTasks
Queued(t) == \E i \in 1..Len(appended) : appended[i] = t
Dequeued(t) == \E i \in 1..Len(removed) : removed[i] = t
Executed(t) == \E i \in 1..Len(ran) : ran[i].task = t

\* C31: no wakeup is lost: under fair scheduling and with every task body
\* terminating, each task appended by thread_pool_queue is eventually
\* dequeued and executed by some worker, whether the workers were waiting
\* on the condition variable or busy when it was queued.
C31_NoLostWakeup ==
    \A t \in Tasks : Queued(t) ~> (Dequeued(t) /\ Executed(t))

\* Every task was executed, one of them queued while a worker was blocked
\* on the condition variable and one while every worker ran a task.
C31_Witness ==
    /\ idleq /\ busyq
    /\ \A t \in Tasks : Queued(t) /\ Dequeued(t) /\ Executed(t)

\* The threads inside the critical section of the queue.
InQueueSection ==
    {w \in Workers : wpc[w] \in {"check", "unlock"}}
        \cup {p \in Producers : ppc[p] \in {"push", "signal", "unlock"}}

\* C34: a worker only pops from the task queue while holding the mutex and
\* only when the queue is not empty (also after a spurious wakeup or when
\* another worker took the task), and at most one thread accesses the
\* queue at a time.
C34_PopsLockedNonEmpty ==
    [][/\ \A w \in Workers :
              (wpc[w] = "check" /\ wpc'[w] = "unlock") =>
                  /\ mu = w /\ queue # <<>>
                  /\ queue' = Tail(queue) /\ wtask'[w] = Head(queue)
       /\ (queue' # queue \/ removed' # removed) => mu \in InQueueSection
       /\ InQueueSection \subseteq {mu}
       /\ InQueueSection' \subseteq {mu'}]_vars

\* A worker woken by the signal finds the queue empty, the task taken by
\* the other worker, and blocks again; the other one is at its pop.
C34_Witness ==
    /\ \E w \in Workers :
           /\ wpc[w] = "wait" /\ w \in waiting
           /\ \E v \in Workers \ {w} :
                  /\ wpc[v] = "unlock" /\ mu = v
                  /\ \E i \in 1..Len(ran) : ran[i].worker = w
    /\ idleq
    /\ queue = <<>>
    /\ Len(removed) = 2

\* C35: each task appended by thread_pool_queue is executed at most once
\* and by exactly one worker: no two workers obtain the same queued task,
\* and a task is never executed without having been queued.
C35_AtMostOnce ==
    /\ \A i, j \in 1..Len(ran) : ran[i].task = ran[j].task => i = j
    /\ \A i, j \in 1..Len(removed) : removed[i] = removed[j] => i = j
    /\ \A i \in 1..Len(ran) : Queued(ran[i].task) /\ Dequeued(ran[i].task)
    /\ \A w, v \in Workers :
           (/\ wpc[w] \in {"unlock", "call", "run"}
            /\ wpc[v] \in {"unlock", "call", "run"}
            /\ wtask[w].id = wtask[v].id) => w = v
    /\ \A w \in Workers :
           wpc[w] \in {"unlock", "call", "run"} => Queued(wtask[w].id)

\* Both workers execute tasks at the same time while a third one is queued.
C35_Witness ==
    /\ \A w \in Workers : wpc[w] = "run"
    /\ Len(ran) = NumWorkers
    /\ Len(queue) = 1

(***************************************************************************)
(* The root returned by avl_fix and avl_del, and the parent links.         *)
(***************************************************************************)
\* C32: avl_fix and avl_del return the root of the whole resulting tree:
\* the returned node has a null parent and every remaining node is
\* reachable from it; avl_del returns null exactly when the deleted node
\* was the only node.
C32_ReturnsRoot ==
    /\ root # 0 => tree[root].parent = 0 /\ TreeNodes = tref
    /\ root = 0 <=> tref = {}
    /\ tlast.op = "add" => root # 0
    /\ tlast.op = "del" =>
           (root = 0 <=> (tlast.root0 = tlast.node /\ ~tlast.two
                          /\ \A n \in Slots : tree[n] = FreeNode))

\* An avl_del of a node with at most one child whose rebalancing rotated at
\* the root: the old root is still in the tree, below the returned one.
C32_Witness ==
    /\ tlast.op = "del" /\ ~tlast.two
    /\ tlast.root0 # tlast.node /\ tlast.root0 # root /\ root # 0
    /\ tlast.root0 \in TreeNodes

\* C33: parent links stay consistent with child links after every
\* insertion and deletion: the root's parent is null, and every left or
\* right child c of a node n has c.parent = n, also after rotations and
\* after the successor is patched into the place of a deleted node with
\* two children.
C33_ParentLinks ==
    /\ root # 0 => tree[root].parent = 0
    /\ \A n \in TreeNodes \cup tref :
           /\ tree[n].left # 0 => tree[tree[n].left].parent = n
           /\ tree[n].right # 0 => tree[tree[n].right].parent = n
           /\ n # root =>
                  /\ tree[n].parent \in tref
                  /\ n \in {tree[tree[n].parent].left,
                            tree[tree[n].parent].right}

\* An avl_del of a node with two children below the root, in a tree that
\* keeps its root: the successor sits in the place of the deleted node.
C33_Witness ==
    /\ tlast.op = "del" /\ tlast.two
    /\ tlast.root0 # tlast.node /\ tlast.root0 = root
    /\ Cardinality(tref) >= Len(BigOrder) - 1
    /\ \E n \in tref : tree[n].left # 0 /\ tree[n].right # 0 /\ n # root

(***************************************************************************)
(* The intrusive circular list (list.h).  A node is a slot of `dlist`;     *)
(* pointer 0 is nullptr; the head of the list is the slot after the nodes. *)
(***************************************************************************)
NumListNodes == 3
MaxListOps == 6

ListNodes == 1..NumListNodes
ListHead == NumListNodes + 1

\* DList: prev = nullptr, next = nullptr.
DList == [prev |-> 0, next |-> 0]

\* dlist_init: node->prev = node->next = node.
dlist_init(l, node) == [l EXCEPT ![node] = [prev |-> node, next |-> node]]

\* dlist_empty: node->next == node.
dlist_empty(l, node) == l[node].next = node

\* A faulty dlist_detach that leaves next->prev pointing at the node.
dlist_detach_half(l, node) ==
    [l EXCEPT ![l[node].prev].next = l[node].next]

\* dlist_detach: prev->next = next; next->prev = prev.
dlist_detach(l, node) ==
    LET prev == l[node].prev
        next == l[node].next
        l1 == [l EXCEPT ![prev].next = next]
    IN  [l1 EXCEPT ![next].prev = prev]

\* dlist_insert_before: prev->next = rookie; rookie->prev = prev;
\* rookie->next = target; target->prev = rookie.
dlist_insert_before(l, target, rookie) ==
    LET prev == l[target].prev
        l1 == [l EXCEPT ![prev].next = rookie]
        l2 == [l1 EXCEPT ![rookie].prev = prev]
        l3 == [l2 EXCEPT ![rookie].next = target]
    IN  [l3 EXCEPT ![target].prev = rookie]

ListLinked == {dlinked[i] : i \in 1..Len(dlinked)}

\* dlist_insert_before(head, x) with an unlinked x.
ListInsert(x) ==
    /\ dfuel > 0
    /\ x \notin ListLinked
    /\ dlist' = dlist_insert_before(dlist, ListHead, x)
    /\ dlinked' = Append(dlinked, x)
    /\ dfuel' = dfuel - 1

\* dlist_detach(y) with a linked y that is not the head.
ListDetach(y) ==
    /\ dfuel > 0
    /\ y \in ListLinked
    /\ dlist' = dlist_detach(dlist, y)
    /\ dlinked' = SelectSeq(dlinked, LAMBDA n : n # y)
    /\ dfuel' = dfuel - 1

\* The nodes default-constructed, then dlist_init(head).
ListInit ==
    /\ dlist = dlist_init([n \in 1..ListHead |-> DList], ListHead)
    /\ dlinked = <<>>
    /\ dfuel = MaxListOps
    /\ NoMap /\ NoTree /\ NoHeap /\ NoPool

ListNext ==
    \/ \E x \in ListNodes :
           ListInsert(x) /\ UNCHANGED <<hvars, tvars, pvars, qvars>>
    \/ \E y \in ListNodes :
           ListDetach(y) /\ UNCHANGED <<hvars, tvars, pvars, qvars>>

SpecList == ListInit /\ [][ListNext]_vars

\* The nodes met by following next from n until the head, at most d of them.
RECURSIVE ListWalk(_, _)
ListWalk(n, d) ==
    IF n = ListHead \/ n = 0 \/ d = 0 THEN <<>>
    ELSE <<n>> \o ListWalk(dlist[n].next, d - 1)

\* C39: for a circular list whose head was set up with dlist_init, after
\* any sequence of dlist_insert_before(head, x) with unlinked x and
\* dlist_detach(y) with linked non-head y, every linked node n satisfies
\* n.next.prev = n and n.prev.next = n, the nodes reached by following next
\* from the head are exactly the inserted and not detached nodes in
\* insertion order, and dlist_empty(head) is true exactly when there are
\* none.
C39_ListShape ==
    /\ \A n \in ListLinked \cup {ListHead} :
           /\ dlist[n].next # 0 /\ dlist[n].prev # 0
           /\ dlist[dlist[n].next].prev = n
           /\ dlist[dlist[n].prev].next = n
    /\ ListWalk(dlist[ListHead].next, ListHead + 1) = dlinked
    /\ dlist_empty(dlist, ListHead) <=> dlinked = <<>>

\* All nodes linked, one of them detached from between two others and
\* inserted again, after the nodes that were inserted after it.
C39_Witness ==
    /\ Len(dlinked) = NumListNodes
    /\ dfuel <= MaxListOps - NumListNodes - 2
    /\ \E i \in 1..(Len(dlinked) - 1) : dlinked[i] > dlinked[i + 1]

(***************************************************************************)
(* The migration cursor, the entries under migration and the load.         *)
(***************************************************************************)
\* C36: migration cursor invariant: whenever the older table holds at
\* least one entry, migrate_pos <= older.mask and every older bucket with
\* index below migrate_pos is empty, so the migration loop always finds a
\* non-empty bucket before running past the end of the older bucket array.
C36_CursorInRange ==
    hmap.older.size > 0 =>
        /\ hmap.older.tab # NullTab
        /\ hmap.migrate_pos <= hmap.older.mask
        /\ \A b \in 0..(hmap.migrate_pos - 1) : hmap.older.tab[b + 1] = <<>>
        /\ \E b \in hmap.migrate_pos..hmap.older.mask :
               hmap.older.tab[b + 1] # <<>>

\* Mid-rehash with the cursor past emptied buckets, after an hm_delete that
\* took a bulk-loaded entry out of the last bucket of the older table.
C36_Witness ==
    /\ last.op = "delete" /\ last.ret.id = LoadLarge /\ last.mid0
    /\ hmap.older.size > 0
    /\ hmap.migrate_pos > 0
    /\ hmap.older.tab[hmap.older.mask + 1] # <<>>

\* The links of a table: the places of its bucket chains.
TabLinks(htab) ==
    UNION {{<<b, i>> : i \in 1..Len(htab.tab[b])} : b \in 1..Len(htab.tab)}

\* Each live entry is linked in exactly one chain of exactly one table, and
\* nothing else is linked.
LinkedOnce(h, entries) ==
    /\ Entries(h) = entries
    /\ TabEntries(h.newer) \cap TabEntries(h.older) = {}
    /\ Cardinality(TabLinks(h.newer)) + Cardinality(TabLinks(h.older))
           = Cardinality(entries)

\* C37: migration neither loses nor duplicates entries: a migration step
\* (and therefore hm_lookup as a whole) leaves the set of live entries
\* unchanged, and after every public call each live entry is linked in
\* exactly one bucket chain of exactly one of the two tables.
C37_MigrationKeepsEntries ==
    [][(ops' = ops + 1 /\ ~aborted') =>
          /\ Entries(hm_help_rehashing(hmap)) = Entries(hmap)
          /\ last'.op = "lookup" =>
                 /\ Entries(hmap') = Entries(hmap)
                 /\ Live' = Live
          /\ LinkedOnce(hmap', Live')]_vars

\* An hm_lookup mid-rehash whose migration step moved a quota of entries:
\* entries wait in the older table and at least two quotas are in the
\* newer one.
C37_Witness ==
    /\ last.op = "lookup" /\ last.mid0
    /\ hmap.older.size > 0
    /\ hmap.newer.size >= 2 * k_rehashing_work
    /\ LinkedOnce(hmap, Live)

\* C38: load stays bounded in steady state: whenever hm_insert, hm_delete
\* or hm_lookup returns with no older table allocated, newer.size is less
\* than 8 times the capacity of the newer table, even though the
\* load-factor check is skipped for inserts made while a rehash is in
\* progress.
C38_LoadBounded ==
    hmap.older.tab = NullTab =>
        hmap.newer.size < k_max_load_factor * (hmap.newer.mask + 1)

\* An hm_insert made while a rehash was in progress, its check skipped,
\* whose migration step completed the rehash.
C38_Witness ==
    /\ last.op = "insert" /\ last.mid0 /\ ~last.trig
    /\ hmap.older.tab = NullTab
    /\ hmap.newer.size > LoadLarge + 1
    /\ hmap.newer.size < k_max_load_factor * (hmap.newer.mask + 1)

====
